---- MODULE Spec2Model ----
(***************************************************************************)
(* Port-schema builder, type propagator and schema migrator of the Pulse   *)
(* graph editor (src/src/app.rs, src/src/app/impls.rs, src/src/bindings.rs)*)
(*                                                                         *)
(* A graph is a record [nodes, conns, av].  nodes maps every node key to a *)
(* node record (tmpl = "None" for a key that holds no node), conns is the  *)
(* set of connections [out, inp], and av is the set of port keys that were *)
(* live when the running operation began.  The slot maps of the program    *)
(* never hand out a key twice; the model hands out the least key that is   *)
(* not live, not referred to from anywhere and not in av, which cannot be  *)
(* told apart from a key that was never used.                              *)
(***************************************************************************)
EXTENDS Integers, Sequences, FiniteSets, TLC

VARIABLES graph, bindings, exposed, nodeSizes, graphDomain, graphSubtype,
          status, last, prev, loaded, undoer, saveFilePath

vars == <<graph, bindings, exposed, nodeSizes, graphDomain, graphSubtype,
          status, last, prev, loaded, undoer, saveFilePath>>

\* ------------------------------------------------------------------ bounds
MaxNodes == 3
MaxInputs == 30
MaxOutputs == 24
MaxMigNodes == 3
MaxRuns == 2

NodeIds == 1..MaxNodes
InputIds == 1..MaxInputs
OutputIds == 1..MaxOutputs

\* ------------------------------------------------- concrete value types
\* A PulseValueType is a sequence of tags: <<"PVAL_INT">>, and
\* PVAL_ARRAY(T) is <<"PVAL_ARRAY">> \o T.  <<>> is Option::None.
NoType == <<>>
TInt == <<"PVAL_INT">>
TFloat == <<"PVAL_FLOAT">>
TString == <<"PVAL_STRING">>
TEHandle == <<"PVAL_EHANDLE">>
TBool == <<"PVAL_BOOL_VALUE">>
TVec3 == <<"PVAL_VEC3">>
TAny == <<"PVAL_ANY">>
TArray(t) == <<"PVAL_ARRAY">> \o t
IsArray(t) == Len(t) > 1 /\ t[1] = "PVAL_ARRAY"
Inner(t) == Tail(t)

ScalarTypes == {TInt, TFloat, TString, TEHandle, TBool}
ValueTypes == ScalarTypes \cup {TArray(t) : t \in ScalarTypes}
DefaultType == TInt

\* ------------------------------------------------------ port values
\* A PulseGraphValueType: the variant vt with its payload (n: number, flag,
\* node or binding key; t: a value type; s: a name).
Val(vt, n, t, s) == [vt |-> vt, n |-> n, t |-> t, s |-> s]
VScalar(n) == Val("Scalar", n, NoType, "")
VString(n) == Val("String", n, NoType, "")
VBool(n) == Val("Bool", n, NoType, "")
VEHandle == Val("EHandle", 0, NoType, "")
VAction == Val("Action", 0, NoType, "")
VArray == Val("Array", 0, NoType, "")
VAny == Val("Any", 0, NoType, "")
VTyp(t) == Val("Typ", 0, t, "")
VNodeChoice(n) == Val("NodeChoice", n, NoType, "")
VLibraryBindingChoice(b) == Val("LibraryBindingChoice", b, NoType, "")
VVariableName(s) == Val("InternalVariableName", 0, NoType, s)
VGeneralEnum == Val("GeneralEnumChoice", 0, NoType, "")
VVec3 == Val("Vec3", 0, NoType, "")

\* ------------------------------------------------- value-type catalog
\* pulse_value_type_to_node_types: (PulseDataType, PulseGraphValueType)
CatalogCategory(t) ==
    IF t = TInt \/ t = TFloat THEN "Scalar"
    ELSE IF t = TString THEN "String"
    ELSE IF t = TEHandle THEN "EHandle"
    ELSE IF t = TBool THEN "Bool"
    ELSE IF t = TVec3 THEN "Vec3"
    ELSE IF IsArray(t) THEN "Array"
    ELSE "Any"

CatalogDefault(t) ==
    IF t = TInt \/ t = TFloat THEN VScalar(0)
    ELSE IF t = TString THEN VString(0)
    ELSE IF t = TEHandle THEN VEHandle
    ELSE IF t = TBool THEN VBool(0)
    ELSE IF t = TVec3 THEN VVec3
    ELSE IF IsArray(t) THEN VArray
    ELSE VAny

\* get_preffered_inputparamkind_from_type
PreferredKind(t) ==
    IF t = TEHandle \/ IsArray(t) THEN "ConnectionOnly" ELSE "ConnectionOrConstant"

\* data_type_to_value_type: the default value of a coarse category
DataTypeToValue(cat) ==
    IF cat = "Scalar" THEN VScalar(0)
    ELSE IF cat = "String" THEN VString(0)
    ELSE IF cat = "EHandle" THEN VEHandle
    ELSE IF cat = "Bool" THEN VBool(0)
    ELSE IF cat = "Vec3" THEN VVec3
    ELSE IF cat = "Array" THEN VArray
    ELSE VAny

\* ------------------------------------------------------ graph store
NoNode == [tmpl |-> "None", bind |-> 0, inputs |-> <<>>, outputs |-> <<>>,
           cot |-> NoType, added |-> <<>>]

EmptyGraph == [nodes |-> [n \in NodeIds |-> NoNode], conns |-> {}, av |-> [i |-> {}, o |-> {}]]

Range(s) == {s[i] : i \in 1..Len(s)}

LiveNodes(g) == {n \in NodeIds : g.nodes[n].tmpl # "None"}
InputIdsOf(g) == UNION {{p.id : p \in Range(g.nodes[n].inputs)} : n \in NodeIds}
OutputIdsOf(g) == UNION {{p.id : p \in Range(g.nodes[n].outputs)} : n \in NodeIds}
AddedRefs(g) == UNION {Range(g.nodes[n].added) : n \in NodeIds}

\* start of an operation: every key live now is withheld until it ends
Begin(g) == [g EXCEPT !.av = [i |-> InputIdsOf(g), o |-> OutputIdsOf(g)]]
Finish(g) == [g EXCEPT !.av = [i |-> {}, o |-> {}]]

Min(S) == CHOOSE x \in S : \A y \in S : x <= y
FreeInputs(g) == InputIds \ (InputIdsOf(g) \cup AddedRefs(g) \cup g.av.i)
FreeOutputs(g) == OutputIds \ (OutputIdsOf(g) \cup g.av.o)
\* 0 when the key space of the model is used up (the operation is then not taken)
FreshInput(g) == IF FreeInputs(g) = {} THEN 0 ELSE Min(FreeInputs(g))
FreshOutput(g) == IF FreeOutputs(g) = {} THEN 0 ELSE Min(FreeOutputs(g))

InPort(id, name, typ, value, kind) ==
    [id |-> id, name |-> name, typ |-> typ, value |-> value, kind |-> kind]
OutPort(id, name, typ) == [id |-> id, name |-> name, typ |-> typ]

\* Graph::add_input_param: a new input with a fresh key, appended to the node
AddInputParam(g, n, name, typ, value, kind) ==
    [g EXCEPT !.nodes[n].inputs = Append(@, InPort(FreshInput(g), name, typ, value, kind))]

\* Graph::add_output_param
AddOutputParam(g, n, name, typ) ==
    [g EXCEPT !.nodes[n].outputs = Append(@, OutPort(FreshOutput(g), name, typ))]

\* Graph::remove_input_param: the port leaves its node and loses its connection
RemoveInputParam(g, id) ==
    [g EXCEPT !.nodes = [n \in NodeIds |->
                           [g.nodes[n] EXCEPT !.inputs = SelectSeq(@, LAMBDA p : p.id # id)]],
              !.conns = {c \in g.conns : c.inp # id}]

\* Graph::remove_output_param
RemoveOutputParam(g, id) ==
    [g EXCEPT !.nodes = [n \in NodeIds |->
                           [g.nodes[n] EXCEPT !.outputs = SelectSeq(@, LAMBDA p : p.id # id)]],
              !.conns = {c \in g.conns : c.out # id}]

\* Node::get_input / get_output: the key of the first port of that name, 0 = Err
FirstIndex(ports, name) ==
    IF \E i \in 1..Len(ports) : ports[i].name = name
    THEN Min({i \in 1..Len(ports) : ports[i].name = name}) ELSE 0
GetInput(node, name) ==
    IF FirstIndex(node.inputs, name) = 0 THEN 0 ELSE node.inputs[FirstIndex(node.inputs, name)].id
GetOutput(node, name) ==
    IF FirstIndex(node.outputs, name) = 0 THEN 0 ELSE node.outputs[FirstIndex(node.outputs, name)].id

\* Graph::get_input(id): the port record of a live input key
InputRec(g, id) ==
    LET n == CHOOSE n \in NodeIds : \E p \in Range(g.nodes[n].inputs) : p.id = id
    IN  CHOOSE p \in Range(g.nodes[n].inputs) : p.id = id
OwnerOfInput(g, id) == CHOOSE n \in NodeIds : \E p \in Range(g.nodes[n].inputs) : p.id = id
OwnerOfOutput(g, id) == CHOOSE n \in NodeIds : \E p \in Range(g.nodes[n].outputs) : p.id = id


\* ----------------------------------------------------- node templates
\* one port of a template: the arguments of add_input_param / add_output_param
I(name, typ, value, kind) == [name |-> name, typ |-> typ, value |-> value, kind |-> kind]
O(name, typ) == [name |-> name, typ |-> typ]

input_action == I("ActionIn", "Action", VAction, "ConnectionOnly")
input_scalar(name, kind, n) == I(name, "Scalar", VScalar(n), kind)
\* a constant-only scalar whose default is 0.5
input_half(name) == I(name, "Scalar", Val("Scalar", 0, NoType, "0.5"), "ConstantOnly")
input_string(name, kind) == I(name, "String", VString(0), kind)
input_bool(name, kind) == I(name, "Bool", VBool(0), kind)
input_ehandle(name) == I(name, "EHandle", VEHandle, "ConnectionOnly")
input_typ(name, t) == I(name, "Typ", VTyp(t), "ConstantOnly")
input_any(name) == I(name, "Any", VAny, "ConnectionOnly")
input_array(name) == I(name, "Array", VArray, "ConnectionOnly")
input_variable_name == I("variableName", "InternalVariableName", VVariableName("CHOOSE"), "ConstantOnly")

\* NodeTemplateTrait::build_node: the inputs of a fresh node of the template
TemplateInputs(tmpl, bind) ==
    CASE tmpl = "EntFire" ->
           <<input_action, I("entity", "EntityName", Val("EntityName", 0, NoType, ""), "ConnectionOrConstant"),
             input_ehandle("entityHandle"), input_string("input", "ConstantOnly"),
             input_string("value", "ConnectionOrConstant")>>
      [] tmpl = "Compare" ->
           <<input_action, input_string("operation", "ConstantOnly"), input_typ("type", TInt),
             input_scalar("A", "ConnectionOrConstant", 0), input_scalar("B", "ConnectionOrConstant", 0)>>
      [] tmpl = "ConcatString" ->
           <<input_string("A", "ConnectionOrConstant"), input_string("B", "ConnectionOrConstant")>>
      [] tmpl = "GetVar" -> <<input_variable_name>>
      [] tmpl = "SetVar" -> <<input_action, input_variable_name>>
      [] tmpl \in {"Operation", "CompareOutput"} ->
           <<input_typ("type", TInt), input_string("operation", "ConstantOnly"),
             input_scalar("A", "ConnectionOrConstant", 0), input_scalar("B", "ConnectionOrConstant", 0)>>
      [] tmpl = "Convert" ->
           <<input_typ("typeto", TString), input_string("entityclass", "ConstantOnly"), input_any("input")>>
      [] tmpl = "IntSwitch" ->
           <<input_action, input_scalar("value", "ConnectionOrConstant", 0),
             input_scalar("caselabel", "ConstantOnly", 0)>>
      [] tmpl = "SoundEventStart" ->
           <<input_action,
             I("strSoundEventName", "SoundEventName", Val("SoundEventName", 0, NoType, ""), "ConnectionOrConstant"),
             I("soundEventType", "GeneralEnum", VGeneralEnum, "ConstantOnly"),
             input_ehandle("hTargetEntity")>>
      [] tmpl = "Function" -> <<>>
      [] tmpl = "CallNode" ->
           <<I("nodeId", "NoideChoice", VNodeChoice(0), "ConstantOnly"), input_action>>
      [] tmpl = "ListenForEntityOutput" ->
           <<input_string("outputName", "ConstantOnly"), input_string("outputParam", "ConstantOnly"),
             input_bool("bListenUntilCanceled", "ConstantOnly")>>
      [] tmpl = "Timeline" ->
           <<I("Start", "Action", VAction, "ConnectionOnly"),
             input_half("timeFromPrevious1"), input_half("timeFromPrevious2"),
             input_half("timeFromPrevious3"), input_half("timeFromPrevious4"),
             input_half("timeFromPrevious5"), input_half("timeFromPrevious6")>>
      [] tmpl = "NewArray" -> <<input_typ("arrayType", TInt)>>
      [] tmpl = "LibraryBindingAssigned" ->
           <<I("binding", "LibraryBindingChoice", VLibraryBindingChoice(bind), "ConstantOnly")>>
      [] tmpl = "GetArrayElement" ->
           <<input_array("array"), input_scalar("index", "ConnectionOrConstant", 0)>>
      [] tmpl = "ScaleVector" ->
           <<input_typ("type", TVec3), input_bool("invert", "ConstantOnly"),
             input_scalar("scale", "ConnectionOrConstant", 1),
             I("vector", "Vec3", VVec3, "ConnectionOrConstant")>>
      [] tmpl = "ForEach" -> <<input_action, input_array("array")>>
      [] OTHER -> <<>>

\* NodeTemplateTrait::build_node: the outputs of a fresh node of the template
TemplateOutputs(tmpl) ==
    CASE tmpl \in {"EntFire", "SetVar", "Function", "CallNode"} -> <<O("outAction", "Action")>>
      [] tmpl = "Compare" -> <<O("True", "Action"), O("False", "Action")>>
      [] tmpl = "ConcatString" -> <<O("out", "String")>>
      [] tmpl = "Operation" -> <<O("out", "Scalar")>>
      [] tmpl = "CompareOutput" -> <<O("out", "Bool")>>
      [] tmpl = "Convert" -> <<O("out", "String")>>
      [] tmpl = "IntSwitch" -> <<O("defaultcase", "Action"), O("outAction", "Action")>>
      [] tmpl = "SoundEventStart" -> <<O("outAction", "Action"), O("retval", "SndEventHandle")>>
      [] tmpl = "ListenForEntityOutput" -> <<O("pActivator", "EHandle"), O("outAction", "Action")>>
      [] tmpl = "Timeline" ->
           <<O("outAction1", "Action"), O("outAction2", "Action"), O("outAction3", "Action"),
             O("outAction4", "Action"), O("outAction5", "Action"), O("outAction6", "Action")>>
      [] tmpl = "NewArray" -> <<O("out", "Array")>>
      [] tmpl = "GetArrayElement" -> <<O("out", "Scalar")>>
      [] tmpl = "ScaleVector" -> <<O("out", "Vec3")>>
      [] tmpl = "ForEach" ->
           <<O("index", "Scalar"), O("out", "Scalar"), O("loopAction", "Action"), O("endAction", "Action")>>
      [] OTHER -> <<>>

RECURSIVE AddInputs(_, _, _)
AddInputs(g, n, specs) ==
    IF specs = <<>> THEN g
    ELSE AddInputs(AddInputParam(g, n, specs[1].name, specs[1].typ, specs[1].value, specs[1].kind),
                   n, Tail(specs))

RECURSIVE AddOutputs(_, _, _)
AddOutputs(g, n, specs) ==
    IF specs = <<>> THEN g
    ELSE AddOutputs(AddOutputParam(g, n, specs[1].name, specs[1].typ), n, Tail(specs))

\* NodeTemplateTrait::user_data
UserData(tmpl, bind) ==
    [tmpl |-> tmpl, bind |-> bind, inputs |-> <<>>, outputs |-> <<>>, cot |-> NoType, added |-> <<>>]

\* Graph::add_node with build_node: the node at key n, with the template's ports
BuildNode(g, n, tmpl, bind) ==
    AddOutputs(AddInputs([g EXCEPT !.nodes[n] = UserData(tmpl, bind)], n, TemplateInputs(tmpl, bind)),
               n, TemplateOutputs(tmpl))

\* ------------------------------------------------------ variable table
\* PulseGraphState::variables: name, concrete type, coarse category
Variables ==
    <<[name |-> "count", typ |-> TInt, data_type |-> "Scalar"],
      [name |-> "names", typ |-> TArray(TString), data_type |-> "Array"]>>
VariableNames == {"count", "names", "CHOOSE"}

\* a lookup that falls back on the first variable when the name has none
FindVariableOrFirst(name) ==
    IF \E i \in 1..Len(Variables) : Variables[i].name = name
    THEN Min({i \in 1..Len(Variables) : Variables[i].name = name}) ELSE 1

\* variables.iter().find(|var| var.name == name): index of the first match, 0 = None
FindVariable(name) ==
    IF \E i \in 1..Len(Variables) : Variables[i].name = name
    THEN Min({i \in 1..Len(Variables) : Variables[i].name = name}) ELSE 0

\* ----------------------------------------------------- port-schema builder
\* The result of an operation: the graph it leaves and how it ended.
Res(g, res) == [g |-> g, res |-> res]

\* Graph::get_input_mut(id) followed by the two assignments typ = .., value = ..
RetypeInput(g, id, typ, value) ==
    [g EXCEPT !.nodes = [n \in NodeIds |->
        [g.nodes[n] EXCEPT !.inputs =
            [i \in 1..Len(@) |-> IF @[i].id = id THEN [@[i] EXCEPT !.typ = typ, !.value = value]
                                 ELSE @[i]]]]]

\* Graph::get_output_mut(id).typ = ..
RetypeOutput(g, id, typ) ==
    [g EXCEPT !.nodes = [n \in NodeIds |->
        [g.nodes[n] EXCEPT !.outputs =
            [i \in 1..Len(@) |-> IF @[i].id = id THEN [@[i] EXCEPT !.typ = typ] ELSE @[i]]]]]

\* the NewArray arm: every user-added input is re-typed in place; indexing the
\* input slot map with a key that is not live panics
RECURSIVE RetypeAdded(_, _, _, _)
RetypeAdded(g, ids, typ, value) ==
    IF ids = <<>> THEN Res(g, "ok")
    ELSE IF ids[1] \notin InputIdsOf(g) THEN Res(g, "panic")
    ELSE RetypeAdded(RetypeInput(g, ids[1], typ, value), Tail(ids), typ, value)

\* an operand arm that leaves the old "B" in place
RebuildOperandsKeepingB(g, n, new_type, with_out) ==
    LET node == g.nodes[n]
        a == GetInput(node, "A")
        b == GetInput(node, "B")
        out == GetOutput(node, "out")
        cat == CatalogCategory(new_type)
        def == CatalogDefault(new_type)
    IN  IF new_type = NoType THEN Res(g, "panic")
        ELSE IF a = 0 \/ b = 0 \/ (with_out /\ out = 0) THEN Res(g, "panic")
        ELSE LET g1 == RemoveInputParam(g, a)
                 g2 == IF with_out THEN RemoveOutputParam(g1, out) ELSE g1
                 g3 == AddInputParam(g2, n, "A", cat, def, "ConnectionOrConstant")
                 g4 == AddInputParam(g3, n, "B", cat, def, "ConnectionOrConstant")
             IN  Res(IF with_out THEN AddOutputParam(g4, n, "out", cat) ELSE g4, "ok")

\* an operand arm that keeps the template's default value of the operands
RebuildOperandsScalarDefault(g, n, new_type, with_out) ==
    LET node == g.nodes[n]
        a == GetInput(node, "A")
        b == GetInput(node, "B")
        out == GetOutput(node, "out")
        cat == CatalogCategory(new_type)
    IN  IF new_type = NoType THEN Res(g, "panic")
        ELSE IF a = 0 \/ b = 0 \/ (with_out /\ out = 0) THEN Res(g, "panic")
        ELSE LET g1 == RemoveInputParam(RemoveInputParam(g, a), b)
                 g2 == IF with_out THEN RemoveOutputParam(g1, out) ELSE g1
                 g3 == AddInputParam(g2, n, "A", cat, VScalar(0), "ConnectionOrConstant")
                 g4 == AddInputParam(g3, n, "B", cat, VScalar(0), "ConnectionOrConstant")
             IN  Res(IF with_out THEN AddOutputParam(g4, n, "out", cat) ELSE g4, "ok")

\* the operand arm shared by Operation (with_out) and Compare / CompareOutput
RebuildOperands(g, n, new_type, with_out) ==
    LET node == g.nodes[n]
        a == GetInput(node, "A")
        b == GetInput(node, "B")
        out == GetOutput(node, "out")
        cat == CatalogCategory(new_type)
        def == CatalogDefault(new_type)
    IN  IF new_type = NoType THEN Res(g, "panic")
        ELSE IF a = 0 \/ b = 0 \/ (with_out /\ out = 0) THEN Res(g, "panic")
        ELSE LET g1 == RemoveInputParam(RemoveInputParam(g, a), b)
                 g2 == IF with_out THEN RemoveOutputParam(g1, out) ELSE g1
                 g3 == AddInputParam(g2, n, "A", cat, def, "ConnectionOrConstant")
                 g4 == AddInputParam(g3, n, "B", cat, def, "ConnectionOrConstant")
             IN  Res(IF with_out THEN AddOutputParam(g4, n, "out", cat) ELSE g4, "ok")

\* PulseGraphEditor::update_node_inputs_outputs_types(node_id, name, new_type)
UpdateNodeInputsOutputsTypes(g, n, name, new_type) ==
    LET node == g.nodes[n]
        tmpl == node.tmpl
        var == FindVariable(name)
    IN  CASE tmpl = "GetVar" ->
               LET param == GetOutput(node, "value")
                   g1 == IF param # 0 THEN RemoveOutputParam(g, param) ELSE g
               IN  Res(IF var # 0 THEN AddOutputParam(g1, n, "value", Variables[var].data_type) ELSE g1,
                       "ok")
          [] tmpl = "SetVar" ->
               LET param == GetInput(node, "value")
                   g1 == IF param # 0 THEN RemoveInputParam(g, param) ELSE g
               IN  Res(IF var # 0
                       THEN AddInputParam(g1, n, "value", Variables[var].data_type,
                                          DataTypeToValue(Variables[var].data_type),
                                          "ConnectionOrConstant")
                       ELSE g1, "ok")
          [] tmpl = "Operation" -> RebuildOperands(g, n, new_type, TRUE)
          [] tmpl \in {"Compare", "CompareOutput"} -> RebuildOperands(g, n, new_type, FALSE)
          [] tmpl = "Convert" ->
               IF name = "typefrom" /\ GetInput(node, "input") # 0
               THEN IF new_type = NoType THEN Res(RemoveInputParam(g, GetInput(node, "input")), "panic")
                    ELSE Res(AddInputParam(RemoveInputParam(g, GetInput(node, "input")), n, "input",
                                           CatalogCategory(new_type), CatalogDefault(new_type),
                                           "ConnectionOrConstant"), "ok")
               ELSE IF name = "typeto" /\ GetOutput(node, "out") # 0
               THEN IF new_type = NoType THEN Res(RemoveOutputParam(g, GetOutput(node, "out")), "panic")
                    ELSE Res(AddOutputParam(RemoveOutputParam(g, GetOutput(node, "out")), n, "out",
                                            CatalogCategory(new_type)), "ok")
               ELSE Res(g, "ok")
          [] tmpl = "GetArrayElement" ->
               IF new_type = NoType \/ GetInput(node, "expectedType") = 0 THEN Res(g, "panic")
               ELSE IF GetOutput(node, "out") # 0
               THEN Res(AddOutputParam(RemoveOutputParam(g, GetOutput(node, "out")), n, "out",
                                       CatalogCategory(new_type)), "ok")
               ELSE Res(g, "ok")
          [] tmpl = "ScaleVector" ->
               LET out == GetOutput(node, "out")
                   vec == GetInput(node, "vector")
                   g1 == RetypeOutput(g, out, CatalogCategory(new_type))
               IN  IF new_type = NoType \/ out = 0 THEN Res(g, "panic")
                   ELSE IF vec = 0 THEN Res(g1, "panic")
                   ELSE Res(AddInputParam(RemoveInputParam(g1, vec), n, "vector",
                                          CatalogCategory(new_type), CatalogDefault(new_type),
                                          "ConnectionOrConstant"), "ok")
          [] tmpl = "NewArray" ->
               LET t == IF new_type = NoType THEN DefaultType ELSE new_type
               IN  RetypeAdded(g, node.added, CatalogCategory(t), CatalogDefault(t))
          [] OTHER -> Res(g, "ok")

\* ----------------------------------------------------- binding catalog
Param(name, t) == [name |-> name, pulsetype |-> t]
NoPoly == [mode |-> "None", param |-> ""]
Poly(mode, param) == [mode |-> mode, param |-> param]
\* FunctionBinding: id, typ (Action | Value), inparams, outparams, polymorphic_return
Binding(id, typ, inparams, outparams, poly) ==
    [id |-> id, typ |-> typ, inparams |-> inparams, outparams |-> outparams, poly |-> poly]

\* GraphBindings::find_function_by_id: index of the first entry with the id, 0 = None
FindFunctionById(bs, id) ==
    IF \E i \in 1..Len(bs) : bs[i].id = id
    THEN Min({i \in 1..Len(bs) : bs[i].id = id}) ELSE 0

\* remove the ports with the given keys, in order
RECURSIVE RemoveInputs(_, _)
RemoveInputs(g, ids) ==
    IF ids = <<>> THEN g ELSE RemoveInputs(RemoveInputParam(g, ids[1]), Tail(ids))
RECURSIVE RemoveOutputs(_, _)
RemoveOutputs(g, ids) ==
    IF ids = <<>> THEN g ELSE RemoveOutputs(RemoveOutputParam(g, ids[1]), Tail(ids))

PortIds(ports) == [i \in 1..Len(ports) |-> ports[i].id]
ParamInputs(params) ==
    [i \in 1..Len(params) |-> I(params[i].name, CatalogCategory(params[i].pulsetype),
                                CatalogDefault(params[i].pulsetype), PreferredKind(params[i].pulsetype))]
ParamOutputs(params) ==
    [i \in 1..Len(params) |-> O(params[i].name, CatalogCategory(params[i].pulsetype))]

\* PulseGraphEditor::update_library_binding_params(node_id, binding)
UpdateLibraryBindingParams(g, n, binding) ==
    LET g1 == RemoveOutputs(g, PortIds(g.nodes[n].outputs))
        chooser == GetInput(g1.nodes[n], "binding")
        g2 == RemoveInputs(g1, SelectSeq(PortIds(g1.nodes[n].inputs), LAMBDA id : id # chooser))
        g3 == IF binding.typ = "Action"
              THEN AddInputParam(AddOutputParam(g2, n, "outAction", "Action"), n,
                                 "ActionIn", "Action", VAction, "ConnectionOrConstant")
              ELSE g2
        g4 == AddInputs(g3, n, ParamInputs(binding.inparams))
    IN  IF chooser = 0 THEN Res(g1, "panic")
        ELSE Res(AddOutputs(g4, n, ParamOutputs(binding.outparams)), "ok")

\* the three port shapes a Call node takes from the template it refers to
RemoteInputs(tmpl) ==
    CASE tmpl = "ListenForEntityOutput" ->
           <<input_ehandle("hEntity"), I("Run", "Action", VAction, "ConnectionOnly"),
             I("Cancel", "Action", VAction, "ConnectionOnly")>>
      [] tmpl = "Function" -> <<input_action, input_bool("Async", "ConstantOnly")>>
      [] tmpl = "Timeline" ->
           <<I("Start", "Action", VAction, "ConnectionOnly"), I("Stop", "Action", VAction, "ConnectionOnly")>>
      [] OTHER -> <<>>
RemoteOutputs(tmpl) ==
    IF tmpl \in {"Function", "Timeline"} THEN <<O("outAction", "Action")>> ELSE <<>>

\* PulseGraphEditor::update_remote_node_params(node_id, node_id_refrence)
UpdateRemoteNodeParams(g, n, ref) ==
    LET chooser == GetInput(g.nodes[n], "nodeId")
        g1 == RemoveInputs(g, SelectSeq(PortIds(g.nodes[n].inputs), LAMBDA id : id # chooser))
        g2 == RemoveOutputs(g1, PortIds(g1.nodes[n].outputs))
        rt == IF ref \in NodeIds THEN g.nodes[ref].tmpl ELSE "None"
    IN  IF chooser = 0 THEN Res(g, "panic")
        ELSE IF rt = "None" THEN Res(g2, "missing")
        ELSE IF rt \in {"ListenForEntityOutput", "Function", "Timeline"}
        THEN Res(AddOutputs(AddInputs(g2, n, RemoteInputs(rt)), n, RemoteOutputs(rt)), "ok")
        ELSE Res(g2, "panic")

\* ------------------------------------------------------ type propagator
\* Option<&str>: <<>> is None, <<s>> is Some(s)
NoName == <<>>
SomeName(s) == <<s>>

\* has_polymorhpic_dependent_return
HasPolymorphicDependentReturn(bs, node) ==
    \/ node.tmpl \in {"GetArrayElement", "NewArray", "GetVar", "ForEach"}
    \/ /\ node.tmpl = "LibraryBindingAssigned"
       /\ FindFunctionById(bs, node.bind) # 0
       /\ bs[FindFunctionById(bs, node.bind)].poly.mode # "None"

RECURSIVE SortedSeq(_)
SortedSeq(S) == IF S = {} THEN <<>> ELSE <<Min(S)>> \o SortedSeq(S \ {Min(S)})

\* utils::get_node_ids_connected_to_output: the (node, input name) pairs of the
\* inputs fed by the node's output of that name; none when it has no such output
ConnectedToOutput(g, n, name) ==
    LET o == GetOutput(g.nodes[n], name)
        ins == SortedSeq({c.inp : c \in {d \in g.conns : d.out = o}})
    IN  IF o = 0 THEN <<>>
        ELSE [i \in 1..Len(ins) |-> [node |-> OwnerOfInput(g, ins[i]),
                                     name |-> InputRec(g, ins[i]).name]]

\* FunctionBinding::find_outparam_by_name: index of the first match, 0 = None
FindOutparamByName(binding, name) ==
    IF \E i \in 1..Len(binding.outparams) : binding.outparams[i].name = name
    THEN Min({i \in 1..Len(binding.outparams) : binding.outparams[i].name = name}) ELSE 0

\* the graph a resolution leaves, how it ended, and the type it resolved
\* (NoType = None)
Resolved(g, res, typ) == [g |-> g, res |-> res, typ |-> typ]
SetCustomOutputType(g, n, t) == [g EXCEPT !.nodes[n].cot = t]

\* a getter that stores the element type without asking whether the inbound
\* type is an array
ResolveElementUnchecked(g, n, source_type) ==
    LET node == g.nodes[n]
        out == GetOutput(node, "out")
        inner == IF IsArray(source_type) THEN Inner(source_type) ELSE source_type
    IN  IF source_type = NoType THEN Resolved(g, "ok", NoType)
        ELSE IF out = 0 THEN Resolved(g, "err", NoType)
        ELSE Resolved(RetypeOutput(SetCustomOutputType(g, n, inner), out, CatalogCategory(inner)),
                      "ok", inner)

\* a getter that stores the element type and leaves the category of "out" alone
ResolveElementKeepingCategory(g, n, source_type) ==
    LET node == g.nodes[n]
        out == GetOutput(node, "out")
    IN  IF source_type = NoType THEN Resolved(g, "ok", NoType)
        ELSE IF ~IsArray(source_type) THEN Resolved(g, "panic", NoType)
        ELSE IF out = 0 THEN Resolved(g, "err", NoType)
        ELSE Resolved(SetCustomOutputType(g, n, Inner(source_type)), "ok", Inner(source_type))

\* a getter that replaces "out" by a new output of the element's category, as
\* the port rebuilds of a manual type change do
ResolveElementReplacingOut(g, n, source_type) ==
    LET node == g.nodes[n]
        out == GetOutput(node, "out")
        g1 == RemoveOutputParam(SetCustomOutputType(g, n, Inner(source_type)), out)
    IN  IF source_type = NoType THEN Resolved(g, "ok", NoType)
        ELSE IF ~IsArray(source_type) THEN Resolved(g, "panic", NoType)
        ELSE IF out = 0 THEN Resolved(g, "err", NoType)
        ELSE Resolved(AddOutputParam(g1, n, "out", CatalogCategory(Inner(source_type))),
                      "ok", Inner(source_type))

\* update_polymorphic_output_types, the GetArrayElement | ForEach arm
ResolveElement(g, n, source_type) ==
    LET node == g.nodes[n]
        out == GetOutput(node, "out")
    IN  IF source_type = NoType THEN Resolved(g, "ok", NoType)
        ELSE IF ~IsArray(source_type) THEN Resolved(g, "panic", NoType)
        ELSE IF out = 0 THEN Resolved(g, "err", NoType)
        ELSE Resolved(RetypeOutput(SetCustomOutputType(g, n, Inner(source_type)), out,
                                   CatalogCategory(Inner(source_type))),
                      "ok", Inner(source_type))

\* a binding arm that resolves FullType to the declared type of "retval"
ResolveBindingDeclared(g, binding, n, source_type, source_input_name) ==
    LET retval == FindOutparamByName(binding, "retval")
        declared == IF retval # 0 THEN binding.outparams[retval].pulsetype ELSE NoType
    IN  IF binding.poly.mode = "FullType"
        THEN Resolved(SetCustomOutputType(g, n, declared), "ok", declared)
        ELSE Resolved(g, "ok", NoType)

\* a binding arm whose FullType case resolves whatever input the type arrives
\* through
ResolveBindingUngated(g, binding, n, source_type, source_input_name) ==
    LET node == g.nodes[n]
        new_type == IF source_type # NoType THEN source_type ELSE node.cot
        named == source_input_name = NoName \/ source_input_name = SomeName(binding.poly.param)
        retval == FindOutparamByName(binding, "retval")
    IN  CASE binding.poly.mode = "FullType" ->
               Resolved(SetCustomOutputType(g, n, new_type), "ok", new_type)
          [] binding.poly.mode = "TypeParam" ->
               IF ~named \/ new_type = NoType THEN Resolved(g, "ok", NoType)
               ELSE IF IsArray(new_type)
               THEN Resolved(SetCustomOutputType(g, n, Inner(new_type)), "ok", Inner(new_type))
               ELSE Resolved(g, "panic", NoType)
          [] binding.poly.mode = "ToSubtype" ->
               Resolved(g, "ok", IF retval # 0 THEN binding.outparams[retval].pulsetype
                                 ELSE TArray(TEHandle))
          [] OTHER -> Resolved(g, "ok", NoType)

\* a binding arm whose ToSubtype case hands the inbound type on when one arrives
ResolveBindingSubtypeOfInbound(g, binding, n, source_type, source_input_name) ==
    LET node == g.nodes[n]
        new_type == IF source_type # NoType THEN source_type ELSE node.cot
        named == source_input_name = NoName \/ source_input_name = SomeName(binding.poly.param)
        retval == FindOutparamByName(binding, "retval")
    IN  CASE binding.poly.mode = "FullType" ->
               IF named THEN Resolved(SetCustomOutputType(g, n, new_type), "ok", new_type)
               ELSE Resolved(g, "ok", NoType)
          [] binding.poly.mode = "TypeParam" ->
               IF ~named THEN Resolved(g, "ok", NoType)
               ELSE IF IsArray(new_type)
               THEN Resolved(SetCustomOutputType(g, n, Inner(new_type)), "ok", Inner(new_type))
               ELSE Resolved(g, "panic", NoType)
          [] binding.poly.mode = "ToSubtype" ->
               Resolved(g, "ok", IF source_type # NoType THEN source_type
                                 ELSE IF retval # 0 THEN binding.outparams[retval].pulsetype
                                 ELSE TArray(TEHandle))
          [] OTHER -> Resolved(g, "ok", NoType)

\* a binding arm whose TypeParam case passes a type that is no array on as it is
ResolveBindingLenient(g, binding, n, source_type, source_input_name) ==
    LET node == g.nodes[n]
        new_type == IF source_type # NoType THEN source_type ELSE node.cot
        named == source_input_name = NoName \/ source_input_name = SomeName(binding.poly.param)
        retval == FindOutparamByName(binding, "retval")
        inner == IF IsArray(new_type) THEN Inner(new_type) ELSE new_type
    IN  CASE binding.poly.mode = "FullType" ->
               IF named THEN Resolved(SetCustomOutputType(g, n, new_type), "ok", new_type)
               ELSE Resolved(g, "ok", NoType)
          [] binding.poly.mode = "TypeParam" ->
               IF ~named \/ new_type = NoType THEN Resolved(g, "ok", NoType)
               ELSE Resolved(SetCustomOutputType(g, n, inner), "ok", inner)
          [] binding.poly.mode = "ToSubtype" ->
               Resolved(g, "ok", IF retval # 0 THEN binding.outparams[retval].pulsetype
                                 ELSE TArray(TEHandle))
          [] OTHER -> Resolved(g, "ok", NoType)

\* update_polymorphic_output_types, the LibraryBindingAssigned arm
ResolveBinding(g, binding, n, source_type, source_input_name) ==
    LET node == g.nodes[n]
        new_type == IF source_type # NoType THEN source_type ELSE node.cot
        named == source_input_name = NoName \/ source_input_name = SomeName(binding.poly.param)
        retval == FindOutparamByName(binding, "retval")
    IN  CASE binding.poly.mode = "FullType" ->
               IF named THEN Resolved(SetCustomOutputType(g, n, new_type), "ok", new_type)
               ELSE Resolved(g, "ok", NoType)
          [] binding.poly.mode = "TypeParam" ->
               IF ~named \/ new_type = NoType THEN Resolved(g, "ok", NoType)
               ELSE IF IsArray(new_type)
               THEN Resolved(SetCustomOutputType(g, n, Inner(new_type)), "ok", Inner(new_type))
               ELSE Resolved(g, "panic", NoType)
          [] binding.poly.mode = "ToSubtype" ->
               Resolved(g, "ok", IF retval # 0 THEN binding.outparams[retval].pulsetype
                                 ELSE TArray(TEHandle))
          [] OTHER -> Resolved(g, "ok", NoType)

\* a GetVar arm that reports a name without a variable as an error
ResolveVariableStrict(g, n) ==
    LET name_id == GetInput(g.nodes[n], "variableName")
        v == InputRec(g, name_id).value
    IN  IF name_id = 0 THEN Resolved(g, "err", NoType)
        ELSE IF v.vt # "InternalVariableName" THEN Resolved(g, "err", NoType)
        ELSE IF FindVariable(v.s) = 0 THEN Resolved(g, "err", NoType)
        ELSE Resolved(g, "ok", Variables[FindVariable(v.s)].typ)

\* update_polymorphic_output_types, the GetVar arm
ResolveVariable(g, n) ==
    LET name_id == GetInput(g.nodes[n], "variableName")
        v == InputRec(g, name_id).value
    IN  IF name_id = 0 THEN Resolved(g, "err", NoType)
        ELSE IF v.vt # "InternalVariableName" THEN Resolved(g, "err", NoType)
        ELSE Resolved(g, "ok", IF FindVariable(v.s) # 0 THEN Variables[FindVariable(v.s)].typ
                               ELSE NoType)

\* update_polymorphic_output_types, the NewArray arm
ResolveNewArray(g, n) ==
    LET a == GetInput(g.nodes[n], "arrayType")
        v == InputRec(g, a).value
    IN  IF a = 0 THEN Resolved(g, "err", NoType)
        ELSE IF v.vt # "Typ" THEN Resolved(g, "err", NoType)
        ELSE Resolved(g, "ok", TArray(v.t))

\* a match whose NewArray arm wraps the inbound type when one arrives
ResolveTypeLiteralFromInbound(g, bs, n, source_type, source_input_name) ==
    LET tmpl == g.nodes[n].tmpl
    IN  CASE tmpl = "NewArray" ->
               IF source_type # NoType THEN Resolved(g, "ok", TArray(source_type))
               ELSE ResolveNewArray(g, n)
          [] tmpl \in {"GetArrayElement", "ForEach"} -> ResolveElement(g, n, source_type)
          [] tmpl = "LibraryBindingAssigned" ->
               ResolveBinding(g, bs[FindFunctionById(bs, g.nodes[n].bind)], n, source_type,
                              source_input_name)
          [] tmpl = "GetVar" -> ResolveVariable(g, n)
          [] OTHER -> Resolved(g, "ok", NoType)

\* update_polymorphic_output_types: the match that resolves opt_new_type
ResolveType(g, bs, n, source_type, source_input_name) ==
    LET tmpl == g.nodes[n].tmpl
    IN  CASE tmpl = "NewArray" -> ResolveNewArray(g, n)
          [] tmpl \in {"GetArrayElement", "ForEach"} -> ResolveElement(g, n, source_type)
          [] tmpl = "LibraryBindingAssigned" ->
               ResolveBinding(g, bs[FindFunctionById(bs, g.nodes[n].bind)], n, source_type,
                              source_input_name)
          [] tmpl = "GetVar" -> ResolveVariable(g, n)
          [] OTHER -> Resolved(g, "ok", NoType)

\* a recursion that also runs back into the nodes that feed the node
DownstreamAndBack(g, n) ==
    LET ups == SortedSeq({OwnerOfOutput(g, c.out) : c \in {d \in g.conns : OwnerOfInput(g, d.inp) = n}})
    IN  ConnectedToOutput(g, n, "out") \o ConnectedToOutput(g, n, "retval")
            \o ConnectedToOutput(g, n, "value")
            \o [i \in 1..Len(ups) |-> [node |-> ups[i], name |-> "out"]]

\* a recursion that also follows the "index" output of the node
DownstreamWithIndex(g, n) ==
    ConnectedToOutput(g, n, "out") \o ConnectedToOutput(g, n, "retval")
        \o ConnectedToOutput(g, n, "value") \o ConnectedToOutput(g, n, "index")

\* the nodes update_polymorphic_output_types recurses into, in call order
Downstream(g, n) ==
    ConnectedToOutput(g, n, "out") \o ConnectedToOutput(g, n, "retval")
        \o ConnectedToOutput(g, n, "value")

\* one recursive call of update_polymorphic_output_types: the node that made it,
\* the node and arguments it was made with, and how many calls were open above
\* the caller
Call(from, node, typ, name, depth) ==
    [from |-> from, node |-> node, typ |-> typ, name |-> name, depth |-> depth]
\* the graph a propagation leaves, how it ended, and the recursive calls it
\* made, in order
Ran(g, res, calls) == [g |-> g, res |-> res, calls |-> calls]

\* PulseGraphEditor::update_polymorphic_output_types.  path holds the calls that
\* are still open: a call equal to an open one recurses without end, and the
\* program dies of the exhausted stack ("overflow").
RECURSIVE Propagate(_, _, _, _, _, _)
RECURSIVE PropagateAll(_, _, _, _, _, _)
\* a propagation in which a node without polymorphic-dependent return takes the
\* inbound type as its own and hands it on
PropagatePassingThrough(g, bs, n, source_type, source_input_name, path) ==
    LET call == <<n, source_type, source_input_name>>
        r == ResolveType(g, bs, n, source_type, source_input_name)
        g1 == SetCustomOutputType(r.g, n, r.typ)
        g2 == SetCustomOutputType(g, n, source_type)
    IN  IF n \notin NodeIds THEN Ran(g, "err", <<>>)
        ELSE IF g.nodes[n].tmpl = "None" THEN Ran(g, "err", <<>>)
        ELSE IF call \in path THEN Ran(g, "overflow", <<>>)
        ELSE IF ~HasPolymorphicDependentReturn(bs, g.nodes[n])
        THEN IF source_type = NoType THEN Ran(g, "ok", <<>>)
             ELSE PropagateAll(g2, bs, n, Downstream(g2, n), source_type, path \cup {call})
        ELSE IF r.res # "ok" \/ r.typ = NoType THEN Ran(r.g, r.res, <<>>)
        ELSE PropagateAll(g1, bs, n, Downstream(g1, n), r.typ, path \cup {call})

Propagate(g, bs, n, source_type, source_input_name, path) ==
    LET call == <<n, source_type, source_input_name>>
        r == ResolveType(g, bs, n, source_type, source_input_name)
        g1 == SetCustomOutputType(r.g, n, r.typ)
    IN  IF n \notin NodeIds THEN Ran(g, "err", <<>>)
        ELSE IF g.nodes[n].tmpl = "None" THEN Ran(g, "err", <<>>)
        ELSE IF ~HasPolymorphicDependentReturn(bs, g.nodes[n]) THEN Ran(g, "ok", <<>>)
        ELSE IF call \in path THEN Ran(g, "overflow", <<>>)
        ELSE IF r.res # "ok" \/ r.typ = NoType THEN Ran(r.g, r.res, <<>>)
        ELSE PropagateAll(g1, bs, n, Downstream(g1, n), r.typ, path \cup {call})
\* the loop over the connected nodes; `?` leaves it at the first failure
PropagateAll(g, bs, from, targets, typ, path) ==
    IF targets = <<>> THEN Ran(g, "ok", <<>>)
    ELSE LET c == Call(from, targets[1].node, typ, SomeName(targets[1].name), Cardinality(path) - 1)
             r == Propagate(g, bs, targets[1].node, typ, SomeName(targets[1].name), path)
             rest == PropagateAll(r.g, bs, from, Tail(targets), typ, path)
         IN  IF r.res # "ok" THEN Ran(r.g, r.res, <<c>> \o r.calls)
             ELSE Ran(rest.g, rest.res, <<c>> \o r.calls \o rest.calls)

\* ------------------------------------------------------ schema migrator
\* The names of the model that contain "action", resp. "binding", once lowercased
\* (input.0.to_lowercase().contains(..)).
NamesWithAction ==
    {"ActionIn", "outAction", "loopAction", "endAction", "reaction",
     "outAction1", "outAction2", "outAction3", "outAction4", "outAction5", "outAction6"}
NamesWithBinding == {"binding"}
IsParamName(name) == name \notin NamesWithAction /\ name \notin NamesWithBinding

\* the inputs of a node the migrator matches against the declared parameters:
\* their positions in node.inputs, in order
MatchedInputs(node) ==
    SelectSeq([i \in 1..Len(node.inputs) |-> i], LAMBDA i : IsParamName(node.inputs[i].name))

\* a migration that leaves the names of the matched inputs as they are
KeepMatched(node, params) == node

\* verify_compat, LibraryBindingAssigned arm: the idx-th matched input takes the
\* name of the idx-th declared parameter
RenameMatched(node, params) ==
    LET m == MatchedInputs(node)
    IN  [node EXCEPT !.inputs =
            [i \in 1..Len(@) |->
                IF \E k \in 1..Len(m) : m[k] = i /\ k <= Len(params)
                THEN [@[i] EXCEPT !.name = params[CHOOSE k \in 1..Len(m) : m[k] = i].name]
                ELSE @[i]]]

\* a queue that starts one parameter too late
QueuedAddParamsSkipping(node, params) ==
    SubSeq(params, Len(MatchedInputs(node)) + 2, Len(params))

\* verify_compat, LibraryBindingAssigned arm: the declared parameters beyond the
\* matched inputs, queued for the node
QueuedAddParams(node, params) ==
    SubSeq(params, Len(MatchedInputs(node)) + 1, Len(params))

\* the binding entry a LibraryBindingAssigned node refers to, 0 = not found
BindingOf(bs, node) ==
    IF node.tmpl = "LibraryBindingAssigned" THEN FindFunctionById(bs, node.bind) ELSE 0

\* verify_compat, CallNode arm: the template of the node the "nodeId" input
\* refers to when the node has no "Async" input; "None" when it has one, when the
\* reference is empty or when it refers to no node
CallTarget(g, node) ==
    LET sel == GetInput(node, "nodeId")
        v == IF sel = 0 THEN VAny ELSE InputRec(g, sel).value
    IN  IF node.tmpl # "CallNode" \/ GetInput(node, "Async") # 0 THEN "None"
        ELSE IF sel = 0 \/ v.vt # "NodeChoice" \/ v.n \notin NodeIds THEN "None"
        ELSE g.nodes[v.n].tmpl

\* a sound patch that leaves "ActionIn" where add_input_param put it
PatchSoundEventAppending(g, n) ==
    LET g1 == AddInputParam(g, n, "soundEventType", "GeneralEnum", VGeneralEnum, "ConstantOnly")
        g2 == AddInputParam(g1, n, "ActionIn", "Action", VAction, "ConnectionOnly")
    IN  AddOutputParam(g2, n, "outAction", "Action")

\* a sound patch whose retain also drops the node's first old input
PatchSoundEventDropping(g, n) ==
    LET g1 == AddInputParam(g, n, "soundEventType", "GeneralEnum", VGeneralEnum, "ConstantOnly")
        g2 == AddInputParam(g1, n, "ActionIn", "Action", VAction, "ConnectionOnly")
        g3 == AddOutputParam(g2, n, "outAction", "Action")
        ins == g3.nodes[n].inputs
    IN  [g3 EXCEPT !.nodes[n].inputs = <<[ins[Len(ins)] EXCEPT !.name = "ActionIn"]>>
                                          \o SelectSeq(Tail(ins), LAMBDA p : p.name # "ActionIn")]

\* verify_compat, the SoundEventStart loop body for one node
PatchSoundEvent(g, n) ==
    LET g1 == AddInputParam(g, n, "soundEventType", "GeneralEnum", VGeneralEnum, "ConstantOnly")
        g2 == AddInputParam(g1, n, "ActionIn", "Action", VAction, "ConnectionOnly")
        g3 == AddOutputParam(g2, n, "outAction", "Action")
        ins == g3.nodes[n].inputs
        \* retain: input_id ends as the key of the last input visited
        moved == [ins[Len(ins)] EXCEPT !.name = "ActionIn"]
        kept == SelectSeq(ins, LAMBDA p : p.name # "ActionIn")
    IN  [g3 EXCEPT !.nodes[n].inputs = <<moved>> \o kept]

\* the nodes of S in slot-map order
NodesWhere(S) == SelectSeq([i \in 1..MaxNodes |-> i], LAMBDA n : n \in S)

RECURSIVE PatchSoundEvents(_, _)
PatchSoundEvents(g, ns) ==
    IF ns = <<>> THEN g ELSE PatchSoundEvents(PatchSoundEvent(g, ns[1]), Tail(ns))

\* an entity-fire patch that lets the new input hold a constant
RECURSIVE PatchEntFiresConstant(_, _)
PatchEntFiresConstant(g, ns) ==
    IF ns = <<>> THEN g
    ELSE PatchEntFiresConstant(AddInputParam(g, ns[1], "entityHandle", "EHandle", VEHandle,
                                             "ConnectionOrConstant"), Tail(ns))

RECURSIVE PatchEntFires(_, _)
PatchEntFires(g, ns) ==
    IF ns = <<>> THEN g
    ELSE PatchEntFires(AddInputParam(g, ns[1], "entityHandle", "EHandle", VEHandle, "ConnectionOnly"),
                       Tail(ns))

RECURSIVE PatchCallFuncs(_, _)
PatchCallFuncs(g, ns) ==
    IF ns = <<>> THEN g
    ELSE PatchCallFuncs(AddInputParam(g, ns[1], "Async", "Bool", VBool(0), "ConstantOnly"), Tail(ns))

\* a listener patch that looks for the output on the referred node instead of
\* the Call node
RECURSIVE PatchListenersAtTarget(_, _)
PatchListenersAtTarget(g, ns) ==
    IF ns = <<>> THEN g
    ELSE LET ref == InputRec(g, GetInput(g.nodes[ns[1]], "nodeId")).value.n
         IN  PatchListenersAtTarget(IF GetOutput(g.nodes[ref], "outAction") # 0
                                    THEN RemoveOutputParam(g, GetOutput(g.nodes[ref], "outAction"))
                                    ELSE g, Tail(ns))

RECURSIVE PatchListeners(_, _)
PatchListeners(g, ns) ==
    IF ns = <<>> THEN g
    ELSE PatchListeners(IF GetOutput(g.nodes[ns[1]], "outAction") # 0
                        THEN RemoveOutputParam(g, GetOutput(g.nodes[ns[1]], "outAction")) ELSE g,
                        Tail(ns))

\* the queued parameters of every binding node, added after all other patches
RECURSIVE AddQueued(_, _, _, _)
AddQueued(g, g0, bs, ns) ==
    IF ns = <<>> THEN g
    ELSE AddQueued(AddInputs(g, ns[1],
                             ParamInputs(QueuedAddParams(g0.nodes[ns[1]],
                                                         bs[BindingOf(bs, g0.nodes[ns[1]])].inparams))),
                   g0, bs, Tail(ns))

\* FullGraphState::verify_compat: the graph it leaves
VerifyCompatGraph(g, bs) ==
    LET renamed == [g EXCEPT !.nodes = [n \in NodeIds |->
                        IF BindingOf(bs, g.nodes[n]) # 0
                        THEN RenameMatched(g.nodes[n], bs[BindingOf(bs, g.nodes[n])].inparams)
                        ELSE g.nodes[n]]]
        sound == NodesWhere({n \in NodeIds : g.nodes[n].tmpl = "SoundEventStart"
                                          /\ GetInput(g.nodes[n], "soundEventType") = 0})
        entfire == NodesWhere({n \in NodeIds : g.nodes[n].tmpl = "EntFire"
                                            /\ GetInput(g.nodes[n], "entityHandle") = 0})
        callfunc == NodesWhere({n \in NodeIds : CallTarget(g, g.nodes[n]) = "Function"})
        listen == NodesWhere({n \in NodeIds : CallTarget(g, g.nodes[n]) = "ListenForEntityOutput"})
        bound == NodesWhere({n \in NodeIds : BindingOf(bs, g.nodes[n]) # 0})
    IN  AddQueued(PatchListeners(PatchCallFuncs(PatchEntFires(PatchSoundEvents(renamed, sound),
                                                                entfire), callfunc), listen),
                  g, bs, bound)

\* verify_compat: node_sizes gets an entry per node when it is empty
VerifyCompatSizes(g, sizes) == IF sizes = {} THEN LiveNodes(g) ELSE sizes
\* verify_compat: the two graph-level texts get their defaults when empty
VerifyCompatDomain(d) == IF d = "" THEN "ServerEntity" ELSE d
VerifyCompatSubtype(t) == IF t = "" THEN "PVAL_EHANDLE:point_pulse" ELSE t

\* -------------------------------------------- persisted graphs (load_state)
\* A persisted node: its template and the ports it was saved with.
Plan(tmpl, bind, ins, outs) == [tmpl |-> tmpl, bind |-> bind, ins |-> ins, outs |-> outs]
NoPlan == Plan("None", 0, <<>>, <<>>)

ParamType(name) ==
    IF name = "x" THEN TEHandle ELSE IF name = "y" THEN TString ELSE TInt
Params(names) == [i \in 1..Len(names) |-> Param(names[i], ParamType(names[i]))]

\* the ports update_library_binding_params gave a node under an entry
BindingPlan(b) ==
    Plan("LibraryBindingAssigned", b.id,
         TemplateInputs("LibraryBindingAssigned", b.id)
           \o (IF b.typ = "Action" THEN <<I("ActionIn", "Action", VAction, "ConnectionOrConstant")>>
               ELSE <<>>)
           \o ParamInputs(b.inparams),
         (IF b.typ = "Action" THEN <<O("outAction", "Action")>> ELSE <<>>) \o ParamOutputs(b.outparams))

\* entries of the binding catalog, as an earlier or the current session loaded them
CatalogEntries ==
    {Binding(1, "Value", Params(names), <<>>, NoPoly) :
        names \in {<<>>, <<"x">>, <<"x", "y", "z">>, <<"y", "x">>, <<"x", "reaction", "z">>}}
    \cup {Binding(1, "Action", Params(<<"x", "y", "z">>), <<>>, NoPoly)}
Catalogs == {<<>>} \cup {<<b>> : b \in CatalogEntries}

WithoutInput(ins, name) == SelectSeq(ins, LAMBDA p : p.name # name)
WithoutOutput(outs, name) == SelectSeq(outs, LAMBDA p : p.name # name)
\* a Call node saved with the shape of the template it referred to
CallPlan(ref, shape, async, stale) ==
    Plan("CallNode", 0,
         <<I("nodeId", "NoideChoice", VNodeChoice(ref), "ConstantOnly")>>
           \o (IF async THEN RemoteInputs(shape) ELSE WithoutInput(RemoteInputs(shape), "Async")),
         IF stale THEN <<O("outAction", "Action")>> ELSE RemoteOutputs(shape))

\* nodes as some version of the editor saved them
PersistedPlans ==
    {Plan(t, 0, TemplateInputs(t, 0), TemplateOutputs(t)) :
        t \in {"EntFire", "SoundEventStart", "Function", "ListenForEntityOutput", "Timeline", "CallNode"}}
    \cup {Plan("EntFire", 0, WithoutInput(TemplateInputs("EntFire", 0), "entityHandle"),
                TemplateOutputs("EntFire")),
          Plan("SoundEventStart", 0,
               WithoutInput(WithoutInput(TemplateInputs("SoundEventStart", 0), "soundEventType"), "ActionIn"),
               WithoutOutput(TemplateOutputs("SoundEventStart"), "outAction"))}
    \cup {CallPlan(ref, shape, async, stale) :
            ref \in 2..(MaxMigNodes + 1), shape \in {"Function", "ListenForEntityOutput", "Timeline"},
            async \in BOOLEAN, stale \in BOOLEAN}
    \cup {BindingPlan(b) : b \in CatalogEntries}

\* the nodes a persisted node is saved next to: the templates a Call node may
\* refer to, and a node to connect to
ContextPlans ==
    {Plan(t, 0, TemplateInputs(t, 0), TemplateOutputs(t)) :
        t \in {"Function", "ListenForEntityOutput", "Timeline", "EntFire"}}

\* a Call node's shape agrees with the node it refers to, unless that node is gone
PlanRefOk(plans) ==
    LET p == plans[1]
        ref == p.ins[1].value.n
        shape == IF \E i \in 1..Len(p.ins) : p.ins[i].name = "hEntity" THEN "ListenForEntityOutput"
                 ELSE IF \E i \in 1..Len(p.ins) : p.ins[i].name = "Stop" THEN "Timeline"
                 ELSE "Function"
    IN  p.tmpl = "CallNode" /\ Len(p.ins) > 1 /\ ref # 0
            => ref > 1 /\ (ref \in DOMAIN plans => plans[ref].tmpl \in {"None", shape})

\* slot 1 holds any persisted node, the later slots hold its context
PersistedLayouts ==
    {ps \in {<<p>> \o ctx : p \in PersistedPlans \cup {NoPlan},
                             ctx \in [1..(MaxMigNodes - 1) -> ContextPlans \cup {NoPlan}]} :
        PlanRefOk(ps)}

RECURSIVE LoadPlans(_, _, _)
LoadPlans(g, plans, k) ==
    IF k > Len(plans) THEN g
    ELSE IF plans[k].tmpl = "None" THEN LoadPlans(g, plans, k + 1)
    ELSE LoadPlans(AddOutputs(AddInputs([g EXCEPT !.nodes[k] = UserData(plans[k].tmpl, plans[k].bind)],
                                        k, plans[k].ins), k, plans[k].outs),
                   plans, k + 1)

\* the connections a persisted graph may hold: an output to an input of its
\* category, between the node of slot 1 and a node of its context
Connectable(g) ==
    {[out |-> o.id, inp |-> i.id] :
        o \in UNION {Range(g.nodes[n].outputs) : n \in NodeIds},
        i \in UNION {Range(g.nodes[n].inputs) : n \in NodeIds}}
ConnOk(g, c) ==
    LET no == OwnerOfOutput(g, c.out)
        ni == OwnerOfInput(g, c.inp)
        o == CHOOSE p \in Range(g.nodes[no].outputs) : p.id = c.out
        i == InputRec(g, c.inp)
    IN  no # ni /\ 1 \in {no, ni} /\ i.kind # "ConstantOnly" /\ (o.typ = i.typ \/ i.typ = "Any")

\* the graphs a file holds: the nodes of a layout and at most one connection
PersistedGraphs(layouts) ==
    UNION {LET g == LoadPlans(EmptyGraph, plans, 1)
           IN  {[g EXCEPT !.conns = cs] :
                   cs \in {{}} \cup {{c} : c \in {c \in Connectable(g) : ConnOk(g, c)}}} :
           plans \in layouts}

\* ------------------------------------------------------------- state
\* save_file_path: None, or the path of the file the graph was saved to
NoPath == ""
\* get_new_undoer: an Undoer without undo points
NewUndoer == [undos |-> <<>>, redos |-> <<>>]

\* what the last operation was: op, the node and arguments it was given, how it
\* ended, and how many operations have run
Last(op, node, typ, name, res, runs) ==
    [op |-> op, node |-> node, typ |-> typ, name |-> name, res |-> res, runs |-> runs]
\* the persisted state as it was when the last migration began
Snapshot == [graph |-> graph, nodeSizes |-> nodeSizes, graphDomain |-> graphDomain,
             graphSubtype |-> graphSubtype]
\* no port was handed the key 0: the key space of the model sufficed
KeysOk(g) == 0 \notin InputIdsOf(g) /\ 0 \notin OutputIdsOf(g)

\* ------------------------------------------------------ editor operations
\* the binding catalog of an editing session; the ids are those of the file, and
\* this file has no entry of id 0
SessionCatalog ==
    <<Binding(1, "Value", <<Param("x", TAny)>>, <<Param("retval", TAny)>>, Poly("FullType", "x")),
      Binding(2, "Value", <<Param("x", TAny)>>, <<Param("retval", TAny)>>, Poly("TypeParam", "x")),
      Binding(3, "Value", <<Param("x", TAny)>>, <<>>, Poly("ToSubtype", "x")),
      Binding(4, "Value", <<Param("x", TAny)>>, <<Param("retval", TArray(TEHandle))>>,
              Poly("ToSubtype", "x")),
      Binding(5, "Action", <<Param("x", TEHandle), Param("y", TString)>>,
              <<Param("retval", TInt)>>, NoPoly)>>

\* the templates and types a user picks from (all_kinds offers CompareOutput and
\* no Compare)
EditorTemplates ==
    {"Operation", "CompareOutput", "Convert", "GetVar", "SetVar", "NewArray", "ForEach",
     "GetArrayElement", "IntSwitch", "CallNode", "Function", "ScaleVector",
     "LibraryBindingAssigned"}
ChoiceTypes == {TInt, TString, TArray(TInt)}

\* all_kinds: a LibraryBindingAssigned template for each of 0 .. count - 1,
\* whatever ids the catalog holds
OfferedBindings(bs) == 0..(Len(bs) - 1)

\* the widget of an input wrote a new value into it
SetInputValue(g, id, value) ==
    [g EXCEPT !.nodes = [n \in NodeIds |->
        [g.nodes[n] EXCEPT !.inputs =
            [i \in 1..Len(@) |-> IF @[i].id = id THEN [@[i] EXCEPT !.value = value] ELSE @[i]]]]]

\* node keys a NodeChoice value still holds
NodeRefs(g) ==
    {p.value.n : p \in {q \in UNION {Range(g.nodes[n].inputs) : n \in NodeIds} :
                           q.value.vt = "NodeChoice"}}
FreeNodes(g) == NodeIds \ (LiveNodes(g) \cup NodeRefs(g))

\* NodeResponse::CreatedNode after graph.add_node(build_node)
CreateNodeOp(g, bs, n, tmpl, bind) ==
    LET g1 == BuildNode(g, n, tmpl, bind)
        b == FindFunctionById(bs, bind)
    IN  IF tmpl = "LibraryBindingAssigned" /\ b # 0 THEN UpdateLibraryBindingParams(g1, n, bs[b])
        ELSE Res(g1, "ok")

\* the Typ widget: ChangeParamType, then UpdatePolymorphicTypes
ChangeParamTypeOp(g, bs, n, name, t) ==
    LET g1 == SetInputValue(g, GetInput(g.nodes[n], name), VTyp(t))
        r == UpdateNodeInputsOutputsTypes(g1, n, name, t)
    IN  IF r.res # "ok" THEN r ELSE Propagate(r.g, bs, n, NoType, NoName, {})

\* the variable widget: ChangeVariableParamType, then UpdatePolymorphicTypes
ChangeVariableOp(g, bs, n, var) ==
    LET g1 == SetInputValue(g, GetInput(g.nodes[n], "variableName"), VVariableName(var))
        r == UpdateNodeInputsOutputsTypes(g1, n, var, NoType)
    IN  IF r.res # "ok" THEN r ELSE Propagate(r.g, bs, n, NoType, NoName, {})

\* the node widget: ChangeRemoteNodeId
ChangeRemoteNodeIdOp(g, n, ref) ==
    UpdateRemoteNodeParams(SetInputValue(g, GetInput(g.nodes[n], "nodeId"), VNodeChoice(ref)), n, ref)

\* bottom_ui of NewArray ("Add element") and the AddCustomInputParam handler
AddCustomInputParamOp(g, n) ==
    LET t == InputRec(g, GetInput(g.nodes[n], "arrayType")).value.t
        g1 == AddInputParam(g, n, "", CatalogCategory(t), CatalogDefault(t), "ConstantOnly")
    IN  [g1 EXCEPT !.nodes[n].added = Append(@, g1.nodes[n].inputs[Len(g1.nodes[n].inputs)].id)]

\* format!("{param_value}") of a case label
CaseName(v) == IF v = 0 THEN "0" ELSE "1"
\* bottom_ui of IntSwitch ("Add parameter") and the AddOutputParam handler
AddOutputParamOp(g, n) ==
    AddOutputParam(g, n, CaseName(InputRec(g, GetInput(g.nodes[n], "caselabel")).value.n), "Action")

\* the RemoveCustomInputParam handler
RemoveCustomInputParamOp(g, n, id) ==
    LET pos == IF \E i \in 1..Len(g.nodes[n].added) : g.nodes[n].added[i] = id
               THEN Min({i \in 1..Len(g.nodes[n].added) : g.nodes[n].added[i] = id}) ELSE 0
        g1 == [g EXCEPT !.nodes[n].added =
                  [i \in 1..(Len(@) - (IF pos = 0 THEN 0 ELSE 1)) |->
                      IF pos = 0 \/ i < pos THEN @[i] ELSE @[i + 1]]]
    IN  RemoveInputParam(g1, id)

\* PulseGraphEditor::clone_node: the node new with the user data of the source
\* and a copy of each of its ports
CloneNodeOp(g, source, new) ==
    LET node == g.nodes[source]
        g1 == [g EXCEPT !.nodes[new] = [node EXCEPT !.inputs = <<>>, !.outputs = <<>>]]
    IN  AddOutputs(AddInputs(g1, new, node.inputs), new, node.outputs)

\* Graph::remove_node: the node, its ports and their connections
RemoveNode(g, n) ==
    [g EXCEPT !.nodes[n] = NoNode,
              !.conns = {c \in g.conns :
                            /\ c.inp \notin {p.id : p \in Range(g.nodes[n].inputs)}
                            /\ c.out \notin {p.id : p \in Range(g.nodes[n].outputs)}}]

\* a connection the editor lets the user draw: an output port to a free input
\* port of its category
CanConnect(g, o, i) ==
    /\ i.kind # "ConstantOnly"
    /\ (o.typ = i.typ \/ i.typ = "Any" \/ o.typ = "Any")
    /\ \A d \in g.conns : d.inp # i.id

\* NodeResponse::ConnectEventEnded after the connection from an output of node n
\* was added
ConnectOp(g, bs, n, c) ==
    Propagate([g EXCEPT !.conns = @ \cup {c}], bs, n, NoType, NoName, {})

\* ------------------------------------------------------------ the editor
MaxLive == 2
MaxAdded == 2
MaxOps == 3

\* ------------------------------------------------------------ undo history
\* FullGraphState: the editor state and the user state
FullState ==
    [graph |-> graph, nodeSizes |-> nodeSizes, exposed |-> exposed, graphDomain |-> graphDomain,
     graphSubtype |-> graphSubtype, bindings |-> bindings, saveFilePath |-> saveFilePath]

\* impl Clone for GraphBindings: three empty tables
CloneBindings(bs) == <<>>

\* #[derive(Clone)] of FullGraphState and PulseGraphState
CloneFullState(st) == [st EXCEPT !.bindings = CloneBindings(@)]

\* impl PartialEq for FullGraphState: the graph and eq_limited of the user state
SameState(a, b) == a.graph = b.graph /\ a.exposed = b.exposed

Back(undos) == undos[Len(undos)]

\* Undoer::has_undo
HasUndo(u, cur) ==
    Len(u.undos) >= 2 \/ (Len(u.undos) = 1 /\ ~SameState(Back(u.undos), cur))

\* Undoer::feed_state; stable: the state has been the same for stable_time (or
\* the flux has lasted auto_save_interval), so that an undo point is added
FeedState(u, cur, stable) ==
    IF u.undos = <<>> THEN [u EXCEPT !.undos = <<CloneFullState(cur)>>]
    ELSE IF SameState(Back(u.undos), cur) THEN u
    ELSE IF stable THEN [undos |-> Append(u.undos, CloneFullState(cur)), redos |-> <<>>]
    ELSE [u EXCEPT !.redos = <<>>]

\* the answer of Undoer::undo and Undoer::redo: the undoer left and the state
\* handed out, if any
Handed(u, some, st) == [u |-> u, some |-> some, st |-> st]

\* Undoer::undo
UndoerUndo(u, cur) ==
    IF ~HasUndo(u, cur) THEN Handed(u, FALSE, cur)
    ELSE LET moved == IF SameState(Back(u.undos), cur)
                      THEN [undos |-> SubSeq(u.undos, 1, Len(u.undos) - 1),
                            redos |-> Append(u.redos, Back(u.undos))]
                      ELSE [undos |-> u.undos, redos |-> Append(u.redos, CloneFullState(cur))]
         IN  Handed(moved, TRUE, Back(moved.undos))

\* Undoer::redo
UndoerRedo(u, cur) ==
    IF u.undos # <<>> /\ ~SameState(Back(u.undos), cur)
    THEN Handed([u EXCEPT !.redos = <<>>], FALSE, cur)
    ELSE IF u.redos # <<>>
    THEN Handed([undos |-> Append(u.undos, Back(u.redos)),
                 redos |-> SubSeq(u.redos, 1, Len(u.redos) - 1)], TRUE, Back(u.redos))
    ELSE Handed(u, FALSE, cur)

\* the state an operation leaves: a panic or an exhausted stack ends the program
Outcome(r, op, node, typ, name) ==
    /\ last.runs < MaxOps
    /\ KeysOk(r.g)
    /\ graph' = Finish(r.g)
    /\ status' = IF r.res \in {"panic", "overflow"} THEN "crashed" ELSE "idle"
    /\ last' = Last(op, node, typ, name, r.res, last.runs + 1)
    /\ UNCHANGED <<bindings, graphDomain, graphSubtype, prev, loaded, saveFilePath>>

Init ==
    /\ graph = EmptyGraph
    /\ bindings = SessionCatalog
    /\ exposed = {}
    /\ nodeSizes = {}
    /\ graphDomain = "ServerEntity"
    /\ graphSubtype = "PVAL_EHANDLE:point_pulse"
    /\ status = "idle"
    /\ last = Last("init", 0, NoType, "", "ok", 0)
    /\ prev = Snapshot
    /\ loaded = graph
    /\ saveFilePath = NoPath
    /\ undoer = FeedState(NewUndoer, FullState, TRUE)

CreateNode ==
    /\ status = "idle"
    /\ Cardinality(LiveNodes(graph)) < MaxLive
    /\ FreeNodes(graph) # {}
    /\ \E tmpl \in EditorTemplates :
       \E bind \in IF tmpl = "LibraryBindingAssigned" THEN OfferedBindings(bindings) ELSE {0} :
          LET n == Min(FreeNodes(graph))
          IN  /\ Outcome(CreateNodeOp(Begin(graph), bindings, n, tmpl, bind), "CreateNode", n, NoType, tmpl)
              /\ exposed' = IF tmpl \in {"Function", "ListenForEntityOutput"}
                            THEN exposed \cup {n} ELSE exposed
              /\ nodeSizes' = nodeSizes \cup {n}
              /\ undoer' = FeedState(undoer, FullState', FALSE)

ChangeParamType ==
    /\ status = "idle"
    /\ \E n \in LiveNodes(graph) :
       \E i \in 1..Len(graph.nodes[n].inputs) :
       \E t \in ChoiceTypes :
          /\ graph.nodes[n].inputs[i].value.vt = "Typ"
          /\ Outcome(ChangeParamTypeOp(Begin(graph), bindings, n, graph.nodes[n].inputs[i].name, t),
                     "ChangeParamType", n, t, graph.nodes[n].inputs[i].name)
          /\ UNCHANGED <<exposed, nodeSizes, undoer>>

ChangeVariableParamType ==
    /\ status = "idle"
    /\ \E n \in LiveNodes(graph) :
       \E i \in 1..Len(Variables) :
          /\ GetInput(graph.nodes[n], "variableName") # 0
          /\ Outcome(ChangeVariableOp(Begin(graph), bindings, n, Variables[i].name),
                     "ChangeVariableParamType", n, NoType, Variables[i].name)
          /\ UNCHANGED <<exposed, nodeSizes, undoer>>

ChangeRemoteNodeId ==
    /\ status = "idle"
    /\ \E n \in LiveNodes(graph) :
       \E ref \in exposed :
          /\ graph.nodes[n].tmpl = "CallNode"
          /\ Outcome(ChangeRemoteNodeIdOp(Begin(graph), n, ref), "ChangeRemoteNodeId", n, NoType,
                     CaseName(ref - 1))
          /\ UNCHANGED <<exposed, nodeSizes, undoer>>

AddCustomInputParam ==
    /\ status = "idle"
    /\ \E n \in LiveNodes(graph) :
          /\ graph.nodes[n].tmpl = "NewArray"
          /\ Len(graph.nodes[n].added) < MaxAdded
          /\ Outcome(Res(AddCustomInputParamOp(Begin(graph), n), "ok"), "AddCustomInputParam", n,
                     NoType, "")
          /\ UNCHANGED <<exposed, nodeSizes, undoer>>

SetCaseLabel ==
    /\ status = "idle"
    /\ \E n \in LiveNodes(graph) :
       \E v \in 0..1 :
          /\ graph.nodes[n].tmpl = "IntSwitch"
          /\ InputRec(graph, GetInput(graph.nodes[n], "caselabel")).value.n # v
          /\ Outcome(Res(SetInputValue(graph, GetInput(graph.nodes[n], "caselabel"), VScalar(v)), "ok"),
                     "SetCaseLabel", n, NoType, CaseName(v))
          /\ UNCHANGED <<exposed, nodeSizes, undoer>>

AddOutputParamAct ==
    /\ status = "idle"
    /\ \E n \in LiveNodes(graph) :
          /\ graph.nodes[n].tmpl = "IntSwitch"
          /\ Len(graph.nodes[n].outputs) < Len(TemplateOutputs("IntSwitch")) + MaxAdded
          /\ Outcome(Res(AddOutputParamOp(Begin(graph), n), "ok"), "AddOutputParam", n, NoType, "")
          /\ UNCHANGED <<exposed, nodeSizes, undoer>>

RemoveCustomInputParam ==
    /\ status = "idle"
    /\ \E n \in LiveNodes(graph) :
       \E i \in 1..Len(graph.nodes[n].inputs) :
          /\ graph.nodes[n].inputs[i].id \in Range(graph.nodes[n].added)
          /\ Outcome(Res(RemoveCustomInputParamOp(graph, n, graph.nodes[n].inputs[i].id), "ok"),
                     "RemoveCustomInputParam", n, NoType, "")
          /\ UNCHANGED <<exposed, nodeSizes, undoer>>

\* value_widget of a user-added input: the drag value, text field or checkbox
\* writes what the user entered into the input
EditValue ==
    /\ status = "idle"
    /\ \E n \in LiveNodes(graph) :
       \E i \in 1..Len(graph.nodes[n].inputs) :
          LET p == graph.nodes[n].inputs[i]
          IN  /\ p.id \in Range(graph.nodes[n].added)
              /\ p.value.vt \in {"Scalar", "String", "Bool"}
              /\ Outcome(Res(SetInputValue(graph, p.id, [p.value EXCEPT !.n = 1]), "ok"),
                         "EditValue", n, NoType, p.name)
              /\ UNCHANGED <<exposed, nodeSizes, undoer>>

CloneNode ==
    /\ status = "idle"
    /\ Cardinality(LiveNodes(graph)) < MaxLive
    /\ FreeNodes(graph) # {}
    /\ \E n \in LiveNodes(graph) :
          LET new == Min(FreeNodes(graph))
          IN  /\ Outcome(Res(CloneNodeOp(Begin(graph), n, new), IF n \in nodeSizes THEN "ok" ELSE "panic"),
                         "CloneNode", n, NoType, "")
              /\ exposed' = IF n \in exposed THEN exposed \cup {new} ELSE exposed
              /\ nodeSizes' = IF n \in nodeSizes THEN nodeSizes \cup {new} ELSE nodeSizes
              /\ UNCHANGED undoer

\* a deletion that leaves the entry of the node in exposed_nodes
DeleteNodeKeepingExposed ==
    /\ status = "idle"
    /\ \E n \in LiveNodes(graph) :
          /\ Outcome(Res(RemoveNode(graph, n), "ok"), "DeleteNode", n, NoType, "")
          /\ exposed' = exposed
          /\ nodeSizes' = nodeSizes \ {n}
          /\ UNCHANGED undoer

DeleteNode ==
    /\ status = "idle"
    /\ \E n \in LiveNodes(graph) :
          /\ Outcome(Res(RemoveNode(graph, n), "ok"), "DeleteNode", n, NoType, "")
          /\ exposed' = exposed \ {n}
          /\ nodeSizes' = nodeSizes \ {n}
          /\ UNCHANGED undoer

Connect ==
    /\ status = "idle"
    /\ \E no \in LiveNodes(graph) :
       \E ni \in LiveNodes(graph) \ {no} :
       \E o \in Range(graph.nodes[no].outputs) :
       \E i \in Range(graph.nodes[ni].inputs) :
          /\ CanConnect(graph, o, i)
          /\ Outcome(ConnectOp(graph, bindings, no, [out |-> o.id, inp |-> i.id]), "Connect", no,
                     NoType, i.name)
          /\ UNCHANGED <<exposed, nodeSizes, undoer>>

Next ==
    \/ CreateNode
    \/ ChangeParamType
    \/ ChangeVariableParamType
    \/ ChangeRemoteNodeId
    \/ AddCustomInputParam
    \/ SetCaseLabel
    \/ AddOutputParamAct
    \/ RemoveCustomInputParam
    \/ CloneNode
    \/ DeleteNode
    \/ Connect

Spec == Init /\ [][Next]_vars

\* --------------------------------------------- nodes under reconfiguration
\* a node of the session: its template and, for a binding node, the binding id,
\* one all_kinds offers or one of the catalog.  A Compare node comes with a graph
\* saved by an earlier version.
Choice(tmpl, bind) == [tmpl |-> tmpl, bind |-> bind]
NodeChoices ==
    {Choice(t, 0) : t \in (EditorTemplates \cup {"Compare"}) \ {"LibraryBindingAssigned"}}
        \cup {Choice("LibraryBindingAssigned", id) :
                 id \in OfferedBindings(SessionCatalog)
                            \cup {SessionCatalog[i].id : i \in 1..Len(SessionCatalog)}}

\* the nodes of a layout created one after the other, each as CreateNode does
RECURSIVE CreateAll(_, _, _, _)
CreateAll(g, bs, layout, k) ==
    IF k > Len(layout) THEN g
    ELSE CreateAll(Finish(CreateNodeOp(Begin(g), bs, k, layout[k].tmpl, layout[k].bind).g),
                   bs, layout, k + 1)

\* the session after the nodes of one of the layouts were created
Created(layouts) ==
    /\ graph \in {CreateAll(EmptyGraph, SessionCatalog, l, 1) : l \in layouts}
    /\ bindings = SessionCatalog
    /\ exposed = {n \in NodeIds : graph.nodes[n].tmpl \in {"Function", "ListenForEntityOutput"}}
    /\ nodeSizes = LiveNodes(graph)
    /\ graphDomain = "ServerEntity"
    /\ graphSubtype = "PVAL_EHANDLE:point_pulse"
    /\ status = "idle"
    /\ last = Last("init", 0, NoType, "", "ok", 0)
    /\ prev = Snapshot
    /\ loaded = graph
    /\ saveFilePath = NoPath
    /\ undoer = FeedState(NewUndoer, FullState, TRUE)

\* one node of any template, alone or next to a node a Call node can refer to
RebuildLayouts ==
    {<<a>> : a \in NodeChoices}
        \cup {<<a, b>> : a \in NodeChoices,
                         b \in {Choice("Function", 0), Choice("ListenForEntityOutput", 0)}}

InitRebuild == Created(RebuildLayouts)

NextRebuild ==
    \/ ChangeParamType
    \/ ChangeVariableParamType
    \/ ChangeRemoteNodeId
    \/ AddCustomInputParam
    \/ RemoveCustomInputParam
    \/ EditValue
    \/ CloneNode

SpecRebuild == InitRebuild /\ [][NextRebuild]_vars

\* ------------------------------------------------ an opened file with incomplete nodes
\* the ports the rebuild of a type-choice node looks up by name
RequiredInputs(tmpl) ==
    CASE tmpl \in {"Operation", "Compare", "CompareOutput"} -> {"A", "B"}
      [] tmpl = "ScaleVector" -> {"vector"}
      [] OTHER -> {}
RequiredOutputs(tmpl) ==
    IF tmpl \in {"Operation", "ScaleVector"} THEN {"out"} ELSE {}

\* a type-choice node as a file may hold it: any of the looked-up ports absent
IncompletePlans ==
    {Plan(t, 0, SelectSeq(TemplateInputs(t, 0), LAMBDA p : p.name \notin di),
          SelectSeq(TemplateOutputs(t), LAMBDA p : p.name \notin do)) :
        t \in {"Operation", "Compare", "CompareOutput", "ScaleVector"},
        di \in SUBSET {"A", "B", "vector"}, do \in SUBSET {"out"}}

\* the editor after a file with one such node was opened
InitIncomplete ==
    /\ graph \in {LoadPlans(EmptyGraph, <<p>>, 1) : p \in IncompletePlans}
    /\ bindings = SessionCatalog
    /\ exposed = {}
    /\ nodeSizes = LiveNodes(graph)
    /\ graphDomain = "ServerEntity"
    /\ graphSubtype = "PVAL_EHANDLE:point_pulse"
    /\ status = "idle"
    /\ last = Last("load", 0, NoType, "", "ok", 0)
    /\ prev = Snapshot
    /\ loaded = graph
    /\ saveFilePath = "graph.ron"
    /\ undoer = FeedState(NewUndoer, FullState, TRUE)

NextIncomplete == ChangeParamType

SpecIncomplete == InitIncomplete /\ [][NextIncomplete]_vars

\* ------------------------------------------------ the start of the editor
\* a marker string of the bindings file, as the sequence of its pieces: a piece
\* is a ":" or a word, a longest run of other characters
MaxPieces == 3
MarkerWords == {"x", "y", "typeparam", "fulltype", "to_subtype", "TypeParam"}
Markers ==
    {s \in UNION {[1..k -> MarkerWords \cup {":"}] : k \in 0..MaxPieces} :
        \A i \in 1..(Len(s) - 1) : s[i] = ":" \/ s[i + 1] = ":"}

\* s.split(':'): the words between the colons, "" where two colons, or a colon
\* and an end of the string, meet
RECURSIVE Split(_)
Split(s) ==
    IF s = <<>> THEN <<"">>
    ELSE IF s[1] = ":" THEN <<"">> \o Split(Tail(s))
    ELSE IF Len(s) = 1 THEN <<s[1]>>
    ELSE <<s[1]>> \o Split(Tail(Tail(s)))

\* Result<Option<PolimorphicTypeInfo>, D::Error>
Parsed(res, poly) == [res |-> res, poly |-> poly]

\* a parser that takes the first two of two or more parts
DeserializeFirstTwoParts(s) ==
    LET parts == Split(s)
    IN  IF Len(parts) < 2 THEN Parsed("ok", NoPoly)
        ELSE CASE parts[2] = "typeparam" -> Parsed("ok", Poly("TypeParam", parts[1]))
               [] parts[2] = "fulltype" -> Parsed("ok", Poly("FullType", parts[1]))
               [] parts[2] = "to_subtype" -> Parsed("ok", Poly("ToSubtype", parts[1]))
               [] OTHER -> Parsed("ok", NoPoly)

\* bindings::deserialize_polymorphic_arg, given a string
DeserializePolymorphicArg(s) ==
    LET parts == Split(s)
    IN  IF Len(parts) # 2 THEN Parsed("ok", NoPoly)
        ELSE CASE parts[2] = "typeparam" -> Parsed("ok", Poly("TypeParam", parts[1]))
               [] parts[2] = "fulltype" -> Parsed("ok", Poly("FullType", parts[1]))
               [] parts[2] = "to_subtype" -> Parsed("ok", Poly("ToSubtype", parts[1]))
               [] OTHER -> Parsed("ok", NoPoly)

\* the editor as PulseGraphEditor::new has built it before it reads bindings.json
InitStartup ==
    /\ graph = EmptyGraph
    /\ bindings = <<>>
    /\ exposed = {}
    /\ nodeSizes = {}
    /\ graphDomain = "ServerEntity"
    /\ graphSubtype = "PVAL_EHANDLE:point_pulse"
    /\ status = "idle"
    /\ last = Last("init", 0, NoType, "", "ok", 0)
    /\ prev = Snapshot
    /\ loaded = graph
    /\ saveFilePath = NoPath
    /\ undoer = NewUndoer

\* the ids of the function entries of bindings.json
FileEntries == 1..2

\* PulseGraphEditor::new: load_bindings of a file whose function entries have the
\* markers as their polymorphic_return
LoadBindings ==
    /\ last.op = "init"
    /\ \E markers \in [FileEntries -> Markers] :
          LET r == [i \in FileEntries |-> DeserializePolymorphicArg(markers[i])]
              ok == \A i \in FileEntries : r[i].res = "ok"
          IN  /\ bindings' = IF ok
                             THEN [i \in FileEntries |->
                                     Binding(i, "Value", <<Param("x", TAny)>>,
                                             <<Param("retval", TAny)>>, r[i].poly)]
                             ELSE bindings
              /\ last' = Last("load_bindings", 0, markers, "", IF ok THEN "ok" ELSE "err",
                              last.runs + 1)
    /\ UNCHANGED <<graph, exposed, nodeSizes, graphDomain, graphSubtype, status, prev, loaded,
                   undoer, saveFilePath>>

NextStartup == LoadBindings

SpecStartup == InitStartup /\ [][NextStartup]_vars

\* ------------------------------------------------ a session with undo
\* the paths a session may have saved its graph to
SavePaths == {NoPath, "graph.ron"}

\* the editor after startup: the catalog is loaded, the graph is empty, the
\* first frame has fed the undoer
InitUndo ==
    /\ graph = EmptyGraph
    /\ bindings = SessionCatalog
    /\ exposed = {}
    /\ nodeSizes = {}
    /\ graphDomain = "ServerEntity"
    /\ graphSubtype = "PVAL_EHANDLE:point_pulse"
    /\ status = "idle"
    /\ last = Last("init", 0, NoType, "", "ok", 0)
    /\ prev = Snapshot
    /\ loaded = graph
    /\ saveFilePath \in SavePaths
    /\ undoer = FeedState(NewUndoer, FullState, TRUE)

\* the variables of FullGraphState take the values of st
Restore(st) ==
    /\ graph' = st.graph
    /\ nodeSizes' = st.nodeSizes
    /\ exposed' = st.exposed
    /\ graphDomain' = st.graphDomain
    /\ graphSubtype' = st.graphSubtype
    /\ bindings' = st.bindings

\* update: the feed_state at the start of a frame
FeedUndoState ==
    /\ status = "idle"
    /\ \E stable \in BOOLEAN :
          /\ undoer' = FeedState(undoer, FullState, stable)
          /\ undoer' # undoer
    /\ last' = Last("feed_undo_state", 0, NoType, "", "ok", last.runs)
    /\ UNCHANGED <<graph, bindings, exposed, nodeSizes, graphDomain, graphSubtype, status, prev,
                   loaded, saveFilePath>>

\* PulseGraphEditor::do_undo
DoUndo ==
    /\ status = "idle"
    /\ LET r == UndoerUndo(undoer, FullState)
       IN  /\ undoer' = r.u
           /\ Restore(IF r.some THEN CloneFullState(r.st) ELSE FullState)
           /\ last' = Last("do_undo", 0, NoType, "", IF r.some THEN "ok" ELSE "none", last.runs)
    /\ UNCHANGED <<status, prev, loaded, saveFilePath>>

\* PulseGraphEditor::do_redo
DoRedo ==
    /\ status = "idle"
    /\ LET r == UndoerRedo(undoer, FullState)
       IN  /\ undoer' = r.u
           /\ Restore(IF r.some THEN CloneFullState(r.st) ELSE FullState)
           /\ last' = Last("do_redo", 0, NoType, "", IF r.some THEN "ok" ELSE "none", last.runs)
    /\ UNCHANGED <<status, prev, loaded, saveFilePath>>

NextUndo ==
    \/ CreateNode
    \/ DeleteNode
    \/ FeedUndoState
    \/ DoUndo
    \/ DoRedo

SpecUndo == InitUndo /\ [][NextUndo]_vars

\* ------------------------------------------------ a session with its file
\* the path the save dialog may return
DialogPaths == {"graph.ron"}

\* what a call of perform_save leaves: save_file_path and the result
Saved(path, res) == [path |-> path, res |-> res]

\* PulseGraphEditor::perform_save(filepath) with save_file_path = path; written
\* tells whether save_graph (serialization and fs::write) succeeds
PerformSave(path, filepath, written) ==
    LET save_path == path
        dest_path == IF filepath # NoPath THEN filepath ELSE save_path
    IN  IF dest_path = NoPath THEN Saved(NoPath, "err")
        ELSE IF ~written THEN Saved(NoPath, "err")
        ELSE Saved(save_path, "ok")

\* update: the "Save" button or Ctrl+S; a cancelled dialog leaves all as it is
Save ==
    /\ status = "idle"
    /\ \E chosen \in DialogPaths \cup {NoPath} :
       \E written \in BOOLEAN :
          LET path == IF saveFilePath = NoPath THEN chosen ELSE saveFilePath
              r == PerformSave(path, NoPath, written)
          IN  /\ path # NoPath
              /\ saveFilePath' = r.path
              /\ last' = Last("perform_save", 0, NoType, path, r.res, last.runs)
    /\ UNCHANGED <<graph, bindings, exposed, nodeSizes, graphDomain, graphSubtype, status, prev,
                   loaded, undoer>>

\* update: the "Save as..." button or Ctrl+Shift+S with a file picked
SaveAs ==
    /\ status = "idle"
    /\ \E chosen \in DialogPaths :
       \E written \in BOOLEAN :
          LET r == PerformSave(chosen, NoPath, written)
          IN  /\ saveFilePath' = r.path
              /\ last' = Last("perform_save", 0, NoType, chosen, r.res, last.runs)
    /\ UNCHANGED <<graph, bindings, exposed, nodeSizes, graphDomain, graphSubtype, status, prev,
                   loaded, undoer>>

\* PulseGraphEditor::new_graph
NewGraph ==
    /\ status = "idle"
    /\ last.runs < MaxOps
    /\ undoer' = NewUndoer
    /\ graph' = EmptyGraph
    /\ nodeSizes' = {}
    /\ exposed' = {}
    /\ saveFilePath' = NoPath
    /\ last' = Last("new_graph", 0, NoType, "", "ok", last.runs + 1)
    /\ UNCHANGED <<bindings, graphDomain, graphSubtype, status, prev, loaded>>

NextFile ==
    \/ CreateNode
    \/ CloneNode
    \/ DeleteNode
    \/ NewGraph
    \/ ChangeRemoteNodeId
    \/ Save
    \/ SaveAs

SpecFile == InitUndo /\ [][NextFile]_vars

\* ------------------------------------------------- chains under propagation
\* a source of an array type, a node that takes an element of it, and a node fed
\* by that element
PropLayouts ==
    {<<a, b, c>> :
        a \in {Choice("NewArray", 0), Choice("GetVar", 0)},
        b \in {Choice("ForEach", 0), Choice("GetArrayElement", 0)},
        c \in {Choice("LibraryBindingAssigned", 1), Choice("LibraryBindingAssigned", 2),
               Choice("LibraryBindingAssigned", 3), Choice("LibraryBindingAssigned", 4),
               Choice("GetArrayElement", 0)}}

InitProp == Created(PropLayouts)

NextProp ==
    \/ ChangeParamType
    \/ ChangeVariableParamType
    \/ Connect

SpecProp == InitProp /\ [][NextProp]_vars

\* ------------------------------------------- migration of persisted graphs
\* load_state: a persisted graph, of this or an earlier version, is in memory and
\* the binding catalog of the session is loaded
InitMig ==
    /\ graph \in PersistedGraphs(PersistedLayouts)
    /\ bindings \in Catalogs
    /\ (bindings = <<>> \/ \E n \in NodeIds : graph.nodes[n].tmpl = "LibraryBindingAssigned")
    /\ exposed = {}
    /\ \E old \in BOOLEAN :
          /\ nodeSizes = IF old THEN {} ELSE LiveNodes(graph)
          /\ graphDomain = IF old THEN "" ELSE "ServerEntity"
          /\ graphSubtype = IF old THEN "" ELSE "PVAL_EHANDLE:point_pulse"
    /\ status = "idle"
    /\ last = Last("load", 0, NoType, "", "ok", 0)
    /\ prev = Snapshot
    /\ loaded = graph
    /\ undoer = NewUndoer
    /\ saveFilePath = NoPath

\* FullGraphState::verify_compat
VerifyCompat ==
    /\ status = "idle"
    /\ last.runs < MaxRuns
    /\ LET g == VerifyCompatGraph(Begin(graph), bindings)
       IN  /\ KeysOk(g)
           /\ graph' = Finish(g)
    /\ nodeSizes' = VerifyCompatSizes(graph, nodeSizes)
    /\ graphDomain' = VerifyCompatDomain(graphDomain)
    /\ graphSubtype' = VerifyCompatSubtype(graphSubtype)
    /\ prev' = Snapshot
    /\ last' = Last("verify_compat", 0, NoType, "", "ok", last.runs + 1)
    /\ UNCHANGED <<bindings, exposed, status, loaded, undoer, saveFilePath>>

NextMig == VerifyCompat

SpecMig == InitMig /\ [][NextMig]_vars

\* ------------------------------------------------- properties of migration
Migrated == last.op = "verify_compat"
\* the whole persisted state is as it was before the last operation
SameAsBefore ==
    /\ graph = prev.graph
    /\ nodeSizes = prev.nodeSizes
    /\ graphDomain = prev.graphDomain
    /\ graphSubtype = prev.graphSubtype
LegacyEntFire(node) == node.tmpl = "EntFire" /\ GetInput(node, "entityHandle") = 0

\* C6: a legacy entity-fire node (no "entityHandle" input) leaves migration with
\* exactly one more input, "entityHandle" of category EHandle and mode
\* ConnectionOnly, after its old inputs, and with its other ports as they were;
\* a further migration of the result changes nothing.
C6_EntFireGainsHandle ==
    \A n \in NodeIds :
        Migrated /\ LegacyEntFire(loaded.nodes[n]) =>
            LET old == loaded.nodes[n]
                new == graph.nodes[n]
                k == Len(old.inputs)
            IN  /\ Len(new.inputs) = k + 1
                /\ SubSeq(new.inputs, 1, k) = old.inputs
                /\ new.inputs[k + 1].name = "entityHandle"
                /\ new.inputs[k + 1].typ = "EHandle"
                /\ new.inputs[k + 1].kind = "ConnectionOnly"
                /\ new.inputs[k + 1].id \notin InputIdsOf(loaded)
                /\ new.outputs = old.outputs
                /\ graph.conns = loaded.conns
                /\ (last.runs >= 2 => SameAsBefore)
C6_Witness ==
    /\ Migrated /\ last.runs = 2
    /\ \E n \in NodeIds : /\ LegacyEntFire(loaded.nodes[n])
                          /\ GetInput(graph.nodes[n], "entityHandle") # 0
                          /\ \E c \in graph.conns : OwnerOfInput(graph, c.inp) = n

\* the input parameters a binding node's catalog entry declares, <<>> without one
DeclaredParams(node) ==
    IF BindingOf(bindings, node) = 0 THEN <<>>
    ELSE bindings[BindingOf(bindings, node)].inparams
\* a binding node with one parameter input under an entry declaring three
OneOfThree(node) ==
    /\ BindingOf(bindings, node) # 0
    /\ Len(DeclaredParams(node)) = 3
    /\ Len(MatchedInputs(node)) = 1

\* C7: migrating a binding node that has one parameter input while its catalog
\* entry declares three adds exactly two inputs, carrying the name, category,
\* default and connectivity mode of the 2nd and 3rd declared parameter, in that
\* order after all the inputs the node had; every earlier connection remains.
C7_BindingGainsMissingParams ==
    \A n \in NodeIds :
        Migrated /\ last.runs = 1 /\ OneOfThree(loaded.nodes[n]) =>
            LET old == loaded.nodes[n]
                new == graph.nodes[n]
                ps == DeclaredParams(old)
                k == Len(old.inputs)
                port(i) == [name |-> new.inputs[i].name, typ |-> new.inputs[i].typ,
                            value |-> new.inputs[i].value, kind |-> new.inputs[i].kind]
            IN  /\ Len(new.inputs) = k + 2
                /\ \A i \in 1..k : new.inputs[i].id = old.inputs[i].id
                /\ \A j \in 1..2 :
                      /\ port(k + j) = [name |-> ps[j + 1].name,
                                        typ |-> CatalogCategory(ps[j + 1].pulsetype),
                                        value |-> CatalogDefault(ps[j + 1].pulsetype),
                                        kind |-> PreferredKind(ps[j + 1].pulsetype)]
                      /\ new.inputs[k + j].id \notin InputIdsOf(loaded)
                /\ new.inputs[k + 1].id # new.inputs[k + 2].id
                /\ loaded.conns \subseteq graph.conns
C7_Witness ==
    /\ Migrated /\ last.runs = 1
    /\ \E n \in NodeIds : /\ OneOfThree(loaded.nodes[n])
                          /\ Len(graph.nodes[n].inputs) = Len(loaded.nodes[n].inputs) + 2
                          /\ \E c \in loaded.conns : OwnerOfInput(loaded, c.inp) = n

\* C8: migration is idempotent: a migration of an already migrated state changes
\* no node, port, port name, port order, connection or graph-level field, for
\* every graph and catalog, declared names holding "action" or "binding" included.
C8_MigrationIdempotent == Migrated /\ last.runs >= 2 => SameAsBefore
C8_Witness ==
    /\ Migrated /\ last.runs = 2
    /\ \E n \in NodeIds : /\ BindingOf(bindings, graph.nodes[n]) # 0
                          /\ \E i \in 1..Len(DeclaredParams(graph.nodes[n])) :
                                ~IsParamName(DeclaredParams(graph.nodes[n])[i].name)

\* the outputs verify_compat deletes: "outAction" of a Call node that has no
\* "Async" input and refers to a ListenForEntityOutput node
StaleOutActions(g) ==
    {GetOutput(g.nodes[n], "outAction") :
        n \in {m \in NodeIds : CallTarget(g, g.nodes[m]) = "ListenForEntityOutput"}} \ {0}
LegacySound(node) == node.tmpl = "SoundEventStart" /\ GetInput(node, "soundEventType") = 0
\* every input a node had before the last operation is still among its inputs,
\* with its identity and value, at its old position (one further down on a
\* sound node that received "ActionIn" at position 0), and fed as before unless
\* it was fed by one of the outputs in exempt
InputsKept(exempt) ==
    \A n \in NodeIds :
        LET old == prev.graph.nodes[n].inputs
            new == graph.nodes[n].inputs
            shift == IF LegacySound(prev.graph.nodes[n]) THEN 1 ELSE 0
        IN  /\ Len(new) >= Len(old) + shift
            /\ \A i \in 1..Len(old) :
                  /\ new[i + shift].id = old[i].id
                  /\ new[i + shift].value = old[i].value
                  /\ \A c \in prev.graph.conns :
                        c.inp = old[i].id /\ c.out \notin exempt => c \in graph.conns
                  /\ \A c \in graph.conns : c.inp = old[i].id => c \in prev.graph.conns
            /\ shift = 1 => new[1].name = "ActionIn" /\ new[1].id \notin InputIdsOf(prev.graph)

\* C9 (as stated): migration is additive on inputs: every input a node had
\* before verify_compat is still in its input list with the same identity, value
\* and incoming connection, the old inputs keep their relative order, and the
\* only position change is "ActionIn" put at position 0 of a sound-trigger node.
C9_AdditiveOnInputs == Migrated => InputsKept({})
\* C9 (amended): the same, except that an input fed by the "outAction" output
\* which the migration deletes from a Call node loses that connection.
C9_AdditiveExceptDeletedOutput == Migrated => InputsKept(StaleOutActions(prev.graph))
C9_Witness ==
    /\ Migrated
    /\ \E c \in prev.graph.conns : /\ c.out \in StaleOutActions(prev.graph)
                                    /\ c \notin graph.conns
                                    /\ c.inp \in InputIdsOf(graph)

\* ------------------------------------------------ properties of the editor
\* what a user sees of a node's ports: everything but the keys
Shape(node) ==
    [inputs |-> [i \in 1..Len(node.inputs) |->
                    [name |-> node.inputs[i].name, typ |-> node.inputs[i].typ,
                     kind |-> node.inputs[i].kind, value |-> node.inputs[i].value]],
     outputs |-> [i \in 1..Len(node.outputs) |->
                    [name |-> node.outputs[i].name, typ |-> node.outputs[i].typ]]]

CatalogTypes == ValueTypes \cup {TVec3}

Config(kind, name, typ, ref) == [kind |-> kind, name |-> name, typ |-> typ, ref |-> ref]
\* the configurations a rebuild of the node can be asked for
Configs(g, bs, n) ==
    LET node == g.nodes[n]
    IN  CASE node.tmpl \in {"GetVar", "SetVar"} ->
               {Config("typed", name, NoType, 0) : name \in VariableNames}
          [] node.tmpl = "LibraryBindingAssigned" ->
               {Config("binding", "", NoType, i) : i \in 1..Len(bs)}
          [] node.tmpl = "CallNode" ->
               {Config("remote", "", NoType, ref) : ref \in NodeIds}
          [] OTHER ->
               {Config("typed", p.name, t, 0) :
                   p \in {q \in Range(node.inputs) : q.value.vt = "Typ"}, t \in CatalogTypes}

\* one port rebuild of the node, as its own operation
Rebuild(g, bs, n, cfg) ==
    CASE cfg.kind = "binding" -> UpdateLibraryBindingParams(Begin(Finish(g)), n, bs[cfg.ref])
      [] cfg.kind = "remote" -> UpdateRemoteNodeParams(Begin(Finish(g)), n, cfg.ref)
      [] OTHER -> UpdateNodeInputsOutputsTypes(Begin(Finish(g)), n, cfg.name, cfg.typ)

\* C1: rebuilding the ports of a node a second time with the same configuration
\* ends as the first rebuild did and leaves the same ordered inputs (name,
\* category, mode, value) and outputs (name, category); the keys may differ.
C1_RebuildIdempotent ==
    \A n \in LiveNodes(graph) :
    \A cfg \in Configs(graph, bindings, n) :
        LET r1 == Rebuild(graph, bindings, n, cfg)
            r2 == Rebuild(r1.g, bindings, n, cfg)
        IN  r1.res # "panic" =>
               /\ KeysOk(r1.g) /\ KeysOk(r2.g)
               /\ r2.res = r1.res
               /\ Shape(r2.g.nodes[n]) = Shape(r1.g.nodes[n])

\* the rebuild of an explicit-type node has run and changed the category of its
\* ports, and the rebuild of a Call node has given it the ports of a function
C1_Witness ==
    \/ /\ last.op = "ChangeParamType" /\ last.res = "ok" /\ last.typ = TString
       /\ graph.nodes[last.node].tmpl \in {"Operation", "Compare", "CompareOutput"}
       /\ \E p \in Range(graph.nodes[last.node].inputs) : p.name = "A" /\ p.typ = "String"
    \/ /\ last.op = "ChangeRemoteNodeId" /\ last.res = "ok"
       /\ GetInput(graph.nodes[last.node], "Async") # 0

\* C2: an Operation, Compare or CompareOutput node rebuilt with a type T of the
\* catalog has operands "A" and "B" of the category and default value the catalog
\* gives for T, both connection-or-constant, and the "out" of an Operation has
\* that category.
C2_OperandsFollowCatalog ==
    \A n \in LiveNodes(graph) :
    \A t \in CatalogTypes :
        graph.nodes[n].tmpl \in {"Operation", "Compare", "CompareOutput"} =>
            LET r == UpdateNodeInputsOutputsTypes(Begin(graph), n, "type", t)
                node == r.g.nodes[n]
            IN  /\ r.res = "ok"
                /\ \A name \in {"A", "B"} :
                      /\ Cardinality({i \in 1..Len(node.inputs) : node.inputs[i].name = name}) = 1
                      /\ \A p \in Range(node.inputs) :
                            p.name = name =>
                               /\ p.typ = CatalogCategory(t)
                               /\ p.value = CatalogDefault(t)
                               /\ p.kind = "ConnectionOrConstant"
                /\ node.tmpl = "Operation" =>
                      /\ Cardinality({i \in 1..Len(node.outputs) : node.outputs[i].name = "out"}) = 1
                      /\ \A p \in Range(node.outputs) : p.name = "out" => p.typ = CatalogCategory(t)

\* the type widget of an Operation node was set to String and the node was
\* rebuilt
C2_Witness ==
    /\ last.op = "ChangeParamType" /\ last.res = "ok" /\ last.typ = TString /\ last.name = "type"
    /\ graph.nodes[last.node].tmpl = "Operation"
    /\ \A name \in {"A", "B"} :
          \E p \in Range(graph.nodes[last.node].inputs) :
              p.name = name /\ p.typ = "String" /\ p.value = VString(0)
    /\ \E p \in Range(graph.nodes[last.node].outputs) : p.name = "out" /\ p.typ = "String"

\* C10: in every state no node has two inputs of one name or two outputs of one
\* name.
C10_PortNamesUnique ==
    \A n \in LiveNodes(graph) :
        /\ \A i, j \in 1..Len(graph.nodes[n].inputs) :
              graph.nodes[n].inputs[i].name = graph.nodes[n].inputs[j].name => i = j
        /\ \A i, j \in 1..Len(graph.nodes[n].outputs) :
              graph.nodes[n].outputs[i].name = graph.nodes[n].outputs[j].name => i = j

\* a NewArray node was given a second element, or an IntSwitch node a second case
\* under the label of the first
C10_Witness ==
    \/ /\ last.op = "AddCustomInputParam"
       /\ Len(graph.nodes[last.node].added) = 2
    \/ /\ last.op = "AddOutputParam"
       /\ Cardinality({i \in 1..Len(graph.nodes[last.node].outputs) :
                          graph.nodes[last.node].outputs[i].name = "0"}) = 2

\* --------------------------------------------- properties of propagation
ElementNodes(g) == {n \in LiveNodes(g) : g.nodes[n].tmpl \in {"GetArrayElement", "ForEach"}}
\* the categories of the outputs of the node called "out"
OutCategories(g, n) == {p.typ : p \in {q \in Range(g.nodes[n].outputs) : q.name = "out"}}
\* the input names a propagation can arrive through
InboundNames(g, n) == {NoName} \cup {SomeName(p.name) : p \in Range(g.nodes[n].inputs)}
Connected(g, no, oname, ni, iname) ==
    \E c \in g.conns :
        /\ c.out = GetOutput(g.nodes[no], oname)
        /\ c.inp = GetInput(g.nodes[ni], iname)

\* C3: a propagation that enters a GetArrayElement or ForEach node with the type
\* Array<T> resolves T: the node stores T and its "out" takes the category the
\* catalog gives for T, and both are still so when the propagation has run on
\* through the nodes downstream.
C3_ElementTypeResolved ==
    \A n \in ElementNodes(graph) :
    \A t \in CatalogTypes :
    \A name \in InboundNames(graph, n) :
        LET r == ResolveType(graph, bindings, n, TArray(t), name)
            p == Propagate(graph, bindings, n, TArray(t), name, {})
        IN  /\ r.res = "ok" /\ r.typ = t
            /\ r.g.nodes[n].cot = t
            /\ OutCategories(r.g, n) = {CatalogCategory(t)}
            /\ p.res = "ok" =>
                  /\ p.g.nodes[n].cot = t
                  /\ OutCategories(p.g, n) = {CatalogCategory(t)}

\* the user set the element type of a NewArray node to String and the
\* propagation reached the node its "out" feeds
C3_Witness ==
    /\ last.op = "ChangeParamType" /\ last.res = "ok" /\ last.typ = TString
    /\ graph.nodes[last.node].tmpl = "NewArray"
    /\ \E n \in ElementNodes(graph) :
          /\ Connected(graph, last.node, "out", n, "array")
          /\ graph.nodes[n].cot = TString
          /\ OutCategories(graph, n) = {"String"}

\* C4: a propagation that enters a GetArrayElement or ForEach node with a type
\* that is not an array ends in the panic and changes nothing: the node keeps its
\* stored type and the category of "out", and no node downstream is visited.
C4_NonArrayIsFatal ==
    \A n \in ElementNodes(graph) :
    \A t \in ScalarTypes \cup {TVec3} :
    \A name \in InboundNames(graph, n) :
        LET p == Propagate(graph, bindings, n, t, name, {})
        IN  /\ p.res = "panic"
            /\ p.g.nodes[n].cot = graph.nodes[n].cot
            /\ OutCategories(p.g, n) = OutCategories(graph, n)
            /\ p.g = graph

\* the program ended in the panic: a ForEach node passed its element type on to a
\* GetArrayElement node, which is as it was created
C4_Witness ==
    /\ status = "crashed" /\ last.res = "panic"
    /\ \E m, n \in ElementNodes(graph) :
          /\ m # n
          /\ \E iname \in {"array", "index"} : Connected(graph, m, "out", n, iname)
          /\ graph.nodes[m].cot \in ScalarTypes
          /\ graph.nodes[n].cot = NoType
          /\ OutCategories(graph, n) = {"Scalar"}

\* a NewArray node of String elements feeds the "array" of b, a ForEach node,
\* whose "out" feeds the "x" of c, a binding node that returns the type of "x";
\* the graph holds no other connection
StringChain(g, bs, a, b, c) ==
    /\ g.nodes[a].tmpl = "NewArray"
    /\ GetInput(g.nodes[a], "arrayType") # 0
    /\ InputRec(g, GetInput(g.nodes[a], "arrayType")).value = VTyp(TString)
    /\ g.nodes[b].tmpl = "ForEach"
    /\ g.nodes[c].tmpl = "LibraryBindingAssigned"
    /\ FindFunctionById(bs, g.nodes[c].bind) # 0
    /\ bs[FindFunctionById(bs, g.nodes[c].bind)].poly = Poly("FullType", "x")
    /\ Connected(g, a, "out", b, "array")
    /\ Connected(g, b, "out", c, "x")
    /\ Cardinality(g.conns) = 2

\* C5: in such a chain a propagation started at the NewArray node ends well and
\* leaves String as the stored type of the ForEach node and of the binding node.
C5_ChainResolvesString ==
    \A a, b, c \in LiveNodes(graph) :
        StringChain(graph, bindings, a, b, c) =>
            LET p == Propagate(graph, bindings, a, NoType, NoName, {})
            IN  /\ p.res = "ok"
                /\ p.g.nodes[b].cot = TString
                /\ p.g.nodes[c].cot = TString

\* the chain was connected first and the element type then set to String
C5_Witness ==
    /\ last.op = "ChangeParamType" /\ last.res = "ok" /\ last.typ = TString
    /\ \E b, c \in LiveNodes(graph) :
          /\ StringChain(graph, bindings, last.node, b, c)
          /\ graph.nodes[b].cot = TString
          /\ graph.nodes[c].cot = TString

\* ------------------------------------------ properties of the recursion
\* the operations that end in update_polymorphic_output_types
PropagatingOps == {"Connect", "ChangeParamType", "ChangeVariableParamType"}

\* C11: every propagation an operation triggers terminates, also when the
\* connections between the nodes it runs through form a cycle: none recurses
\* until the stack is exhausted.
C11_PropagationTerminates ==
    last.op \in PropagatingOps => last.res # "overflow"

\* a connection closed a cycle between two nodes that resolve a type
C11_Witness ==
    /\ last.op = "Connect"
    /\ \E c, d \in graph.conns :
          /\ OwnerOfOutput(graph, c.out) = last.node
          /\ OwnerOfInput(graph, c.inp) = OwnerOfOutput(graph, d.out)
          /\ OwnerOfInput(graph, d.inp) = last.node
          /\ \A n \in {last.node, OwnerOfInput(graph, c.inp)} :
                HasPolymorphicDependentReturn(bindings, graph.nodes[n])
\* C12: a propagation that fails leaves every node as it was when the
\* propagation started: the stored type, the categories of the outputs and the
\* ports of every node.  (A Connect runs nothing but the propagation.)
C12_FailedPropagationChangesNothing ==
    [][(last'.op = "Connect" /\ last'.res # "ok") => graph'.nodes = graph.nodes]_vars

\* a propagation failed downstream of a node it had passed through
C12_Witness ==
    /\ last.op = "Connect" /\ last.res = "panic"
    /\ \E m \in LiveNodes(graph) \ {last.node} :
          /\ \E c \in graph.conns :
                OwnerOfOutput(graph, c.out) = last.node /\ OwnerOfInput(graph, c.inp) = m
          /\ graph.nodes[m].cot # NoType
\* ------------------------------------------ properties of failed lookups
\* the binding nodes whose binding id the catalog does not hold
Unbound(g, bs) ==
    {n \in LiveNodes(g) :
        g.nodes[n].tmpl = "LibraryBindingAssigned" /\ FindFunctionById(bs, g.nodes[n].bind) = 0}

\* C13: for a binding node whose binding id is absent from the catalog the port
\* rebuild on creation and every propagation end without a crash and with a
\* reported failure; the node has only its "binding" selector and nothing else
\* is changed.
C13_AbsentBindingReported ==
    \A n \in Unbound(graph, bindings) :
        /\ (last.op = "CreateNode" /\ last.node = n) => (status = "idle" /\ last.res = "err")
        /\ [p \in 1..Len(graph.nodes[n].inputs) |-> graph.nodes[n].inputs[p].name] = <<"binding">>
        /\ graph.nodes[n].outputs = <<>>
        /\ \A t \in {NoType, TInt, TArray(TInt)} :
           \A name \in {NoName, SomeName("binding")} :
               LET r == Propagate(graph, bindings, n, t, name, {})
               IN  r.res = "err" /\ r.g = graph

\* a node of a binding id the catalog does not hold was created
C13_Witness ==
    /\ last.op = "CreateNode"
    /\ last.node \in Unbound(graph, bindings)
\* the templates update_remote_node_params takes ports from
CallableTemplates == {"ListenForEntityOutput", "Function", "Timeline"}

Structure(g) ==
    [nodes |-> [n \in NodeIds |->
                  [tmpl |-> g.nodes[n].tmpl, bind |-> g.nodes[n].bind, added |-> g.nodes[n].added,
                   inputs |-> g.nodes[n].inputs,
                   outputs |-> [i \in 1..Len(g.nodes[n].outputs) |->
                                  [id |-> g.nodes[n].outputs[i].id,
                                   name |-> g.nodes[n].outputs[i].name]]]],
     conns |-> g.conns]

\* the types a propagation is started with
InboundTypes == {NoType, TInt, TArray(TInt), TArray(TString), TArray(TArray(TInt))}
\* None and the names of the node's inputs
InboundNamesOrNone(g, n) == {NoName} \cup {SomeName(p.name) : p \in Range(g.nodes[n].inputs)}

\* C15: a propagation, however it ends, changes nothing but stored types and the
\* categories of outputs: the nodes, the key, name and order of every port, the
\* value, category and mode of every input and the connections stay as they
\* were.
C15_PropagationKeepsStructure ==
    \A n \in LiveNodes(graph) :
    \A t \in InboundTypes :
    \A name \in InboundNamesOrNone(graph, n) :
        Structure(Propagate(graph, bindings, n, t, name, {}).g) = Structure(graph)

\* a connection was completed and the propagation it started re-typed a node
\* downstream that itself feeds a third node
C15_Witness ==
    /\ last.op = "Connect" /\ last.res = "ok"
    /\ \E m \in ElementNodes(graph) :
          /\ \E c \in graph.conns :
                OwnerOfOutput(graph, c.out) = last.node /\ OwnerOfInput(graph, c.inp) = m
          /\ \E c \in graph.conns : c.out = GetOutput(graph.nodes[m], "out")
          /\ graph.nodes[m].cot # NoType
\* the outputs a resolved type is passed on through
CanonicalOutputs(node) == {p \in Range(node.outputs) : p.name \in {"out", "retval", "value"}}

\* C16: when a step of a propagation resolves a type T at a node, the node then
\* stores T and its output named "out", "retval" or "value" has the category the
\* catalog gives for T.
C16_ResolvedTypeAndCategory ==
    \A n \in LiveNodes(graph) :
    \A t \in InboundTypes :
    \A name \in InboundNamesOrNone(graph, n) :
        HasPolymorphicDependentReturn(bindings, graph.nodes[n]) =>
            LET r == ResolveType(graph, bindings, n, t, name)
                g1 == SetCustomOutputType(r.g, n, r.typ)
            IN  (r.res = "ok" /\ r.typ # NoType) =>
                    /\ g1.nodes[n].cot = r.typ
                    /\ \A p \in CanonicalOutputs(g1.nodes[n]) : p.typ = CatalogCategory(r.typ)

\* a propagation resolved a type at a binding node that has a "retval" output
C16_Witness ==
    /\ last.op = "Connect" /\ last.res = "ok"
    /\ \E m \in LiveNodes(graph) \ {last.node} :
          /\ graph.nodes[m].tmpl = "LibraryBindingAssigned"
          /\ graph.nodes[m].cot # NoType
          /\ GetOutput(graph.nodes[m], "retval") # 0
\* the connections that leave an output of node n named "out", "retval" or
\* "value"
CanonicalConns(g, n) == {c \in g.conns : c.out \in {p.id : p \in CanonicalOutputs(g.nodes[n])}}
\* the call a connection gives rise to when its source node resolved typ
CallAlong(g, c, typ, depth) ==
    Call(OwnerOfOutput(g, c.out), OwnerOfInput(g, c.inp), typ, SomeName(InputRec(g, c.inp).name), depth)

\* C17: a propagation that runs to its end recurses from a node that resolved a
\* type T into exactly the nodes whose inputs are connected to its output named
\* "out", "retval" or "value", once per connection, with T and the name of that
\* input; a node that resolved no type recurses nowhere, and no call at any depth
\* goes along a connection from another output.
C17_RecursesAlongCanonicalOutputs ==
    \A n \in LiveNodes(graph) :
    \A t \in InboundTypes :
    \A name \in InboundNamesOrNone(graph, n) :
        LET p == Propagate(graph, bindings, n, t, name, {})
            r == ResolveType(graph, bindings, n, t, name)
            resolves == HasPolymorphicDependentReturn(bindings, graph.nodes[n])
                            /\ r.res = "ok" /\ r.typ # NoType
            direct == SelectSeq(p.calls, LAMBDA c : c.depth = 0)
            expected == IF resolves THEN {CallAlong(graph, c, r.typ, 0) : c \in CanonicalConns(graph, n)}
                        ELSE {}
        IN  p.res = "ok" =>
               /\ Range(direct) = expected
               /\ Len(direct) = Cardinality(IF resolves THEN CanonicalConns(graph, n) ELSE {})
               /\ \A i \in 1..Len(p.calls) :
                      \E c \in CanonicalConns(graph, p.calls[i].from) :
                          CallAlong(graph, c, p.calls[i].typ, p.calls[i].depth) = p.calls[i]

\* a propagation ran through a ForEach node whose "out" and "index" both feed a
\* node: the node fed by "index" alone was left as it was
C17_Witness ==
    /\ last.op = "Connect" /\ last.res = "ok"
    /\ \E b, m \in LiveNodes(graph) \ {last.node} :
          /\ b # m
          /\ graph.nodes[b].tmpl = "ForEach"
          /\ \E c \in CanonicalConns(graph, last.node) : OwnerOfInput(graph, c.inp) = b
          /\ graph.nodes[b].cot # NoType
          /\ \E c \in graph.conns :
                c.out = GetOutput(graph.nodes[b], "index") /\ OwnerOfInput(graph, c.inp) = m
          /\ HasPolymorphicDependentReturn(bindings, graph.nodes[m])
          /\ graph.nodes[m].cot = NoType
\* the binding nodes whose binding returns the element type of a parameter
TypeParamNodes(g, bs) ==
    {n \in LiveNodes(g) :
        /\ g.nodes[n].tmpl = "LibraryBindingAssigned"
        /\ FindFunctionById(bs, g.nodes[n].bind) # 0
        /\ bs[FindFunctionById(bs, g.nodes[n].bind)].poly.mode = "TypeParam"}

\* C18: a propagation started at a TypeParam binding node with no inbound type
\* and no inbound name never ends in the panic of the non-array check, whatever
\* the node has stored, and leaves the stored type as it is.
C18_InitialSyncIsSafe ==
    \A n \in TypeParamNodes(graph, bindings) :
        LET p == Propagate(graph, bindings, n, NoType, NoName, {})
        IN  /\ p.res # "panic"
            /\ p.g.nodes[n].cot = graph.nodes[n].cot

\* a connection from the "retval" of a TypeParam binding node was completed
\* after the node had resolved Array<T> to a scalar T
C18_Witness ==
    /\ last.op = "Connect"
    /\ last.node \in TypeParamNodes(graph, bindings)
    /\ graph.nodes[last.node].cot \in ScalarTypes
\* ---------------------------------------- properties of user-added inputs
\* C19: in every state the user-added inputs of a node are inputs of that node:
\* each key in added_inputs is the key of one of the node's own input ports.
C19_AddedInputsAreOwnInputs ==
    \A n \in LiveNodes(graph) :
        Range(graph.nodes[n].added) \subseteq {p.id : p \in Range(graph.nodes[n].inputs)}

\* a NewArray node that has a user-added element was cloned
C19_Witness ==
    /\ last.op = "CloneNode"
    /\ graph.nodes[last.node].tmpl = "NewArray"
    /\ graph.nodes[last.node].added # <<>>
\* C20: a change (or re-selection) of the element type of a NewArray node leaves
\* every user-added element input at its key and position and with its
\* connection, gives it the category of the new type, keeps the value the user
\* entered when the category is the one it had, and resets the value to the
\* catalog's default only when the category changed.
C20_ElementsRetypedInPlace ==
    [][(/\ last'.op = "ChangeParamType" /\ last'.res = "ok"
        /\ graph.nodes[last'.node].tmpl = "NewArray")
       => LET old == graph.nodes[last'.node].inputs
              new == graph'.nodes[last'.node].inputs
          IN  /\ Len(new) = Len(old)
              /\ graph'.conns = graph.conns
              /\ \A k \in 1..Len(old) :
                    old[k].id \in Range(graph.nodes[last'.node].added) =>
                        /\ new[k].id = old[k].id
                        /\ new[k].typ = CatalogCategory(last'.typ)
                        /\ new[k].value = IF old[k].typ = CatalogCategory(last'.typ)
                                          THEN old[k].value ELSE CatalogDefault(last'.typ)]_vars

\* the element type of a NewArray node that has a user-added element was set
C20_Witness ==
    /\ last.op = "ChangeParamType" /\ last.res = "ok"
    /\ graph.nodes[last.node].tmpl = "NewArray"
    /\ \E p \in Range(graph.nodes[last.node].inputs) :
          /\ p.id \in Range(graph.nodes[last.node].added)
          /\ p.typ = CatalogCategory(last.typ)
\* ------------------------------------- properties of the stored type
\* C21: the stored output type of a node is written by the propagation alone: a
\* step that leaves a node with a type it did not hold before is the step of an
\* operation that ran the propagation.
C21_StoredTypeOnlyFromPropagation ==
    [][\A n \in NodeIds :
          (graph'.nodes[n].cot # graph.nodes[n].cot /\ graph'.nodes[n].cot # NoType)
              => last'.op \in PropagatingOps]_vars

\* a node that holds a resolved type was cloned
C21_Witness ==
    /\ last.op = "CloneNode"
    /\ graph.nodes[last.node].cot # NoType
\* --------------------------------------- properties of the binding rebuild
\* the inputs and outputs the rebuild of a binding node is to leave: the selector
\* (as it is), "ActionIn" first and "outAction" last for an Action binding, and a
\* port per declared parameter in between
ExpectedBindingInputs(binding) ==
    (IF binding.typ = "Action" THEN <<[name |-> "ActionIn", typ |-> "Action"]>> ELSE <<>>)
        \o [i \in 1..Len(binding.inparams) |->
               [name |-> binding.inparams[i].name,
                typ |-> CatalogCategory(binding.inparams[i].pulsetype),
                kind |-> PreferredKind(binding.inparams[i].pulsetype)]]
ExpectedBindingOutputs(binding) ==
    [i \in 1..Len(binding.outparams) |->
        [name |-> binding.outparams[i].name,
         typ |-> CatalogCategory(binding.outparams[i].pulsetype)]]
        \o (IF binding.typ = "Action" THEN <<[name |-> "outAction", typ |-> "Action"]>> ELSE <<>>)

\* C22: the rebuild of a binding node for a binding of the catalog leaves the
\* inputs "binding", then "ActionIn" (Action bindings only), then one input per
\* declared input parameter in catalog order, and the outputs one per declared
\* output parameter in catalog order, then "outAction" (Action bindings only);
\* nothing of the earlier ports but the selector is left, and each parameter
\* port has the category of the catalog and the mode of the preference table.
C22_BindingPortsInOrder ==
    \A n \in LiveNodes(graph) :
    \A b \in 1..Len(bindings) :
        (graph.nodes[n].tmpl = "LibraryBindingAssigned") =>
            LET r == UpdateLibraryBindingParams(Begin(Finish(graph)), n, bindings[b])
                ins == r.g.nodes[n].inputs
                outs == r.g.nodes[n].outputs
                ein == ExpectedBindingInputs(bindings[b])
            IN  /\ r.res = "ok"
                /\ Len(ins) = Len(ein) + 1
                /\ ins[1] = graph.nodes[n].inputs[FirstIndex(graph.nodes[n].inputs, "binding")]
                /\ \A i \in 1..Len(ein) :
                      /\ ins[i + 1].name = ein[i].name /\ ins[i + 1].typ = ein[i].typ
                      /\ ein[i].name # "ActionIn" => ins[i + 1].kind = ein[i].kind
                      /\ ins[i + 1].id \notin {p.id : p \in Range(graph.nodes[n].inputs)}
                /\ [i \in 1..Len(outs) |-> [name |-> outs[i].name, typ |-> outs[i].typ]]
                      = ExpectedBindingOutputs(bindings[b])

\* a node of an Action binding that declares an output parameter was created
C22_Witness ==
    \E n \in LiveNodes(graph) :
        /\ graph.nodes[n].tmpl = "LibraryBindingAssigned"
        /\ FindFunctionById(bindings, graph.nodes[n].bind) # 0
        /\ bindings[FindFunctionById(bindings, graph.nodes[n].bind)].typ = "Action"
        /\ bindings[FindFunctionById(bindings, graph.nodes[n].bind)].outparams # <<>>
        /\ GetOutput(graph.nodes[n], "outAction") # 0
\* ------------------------------------ properties of the binding arm
\* the binding nodes whose binding has the given polymorphic return
PolyNodes(g, bs, mode) ==
    {n \in LiveNodes(g) :
        /\ g.nodes[n].tmpl = "LibraryBindingAssigned"
        /\ FindFunctionById(bs, g.nodes[n].bind) # 0
        /\ bs[FindFunctionById(bs, g.nodes[n].bind)].poly.mode = mode}
PolyParam(g, bs, n) == bs[FindFunctionById(bs, g.nodes[n].bind)].poly.param
\* None, the names of the node's inputs and a name of none of them
InboundNamesOrOther(g, n) == InboundNamesOrNone(g, n) \cup {SomeName("other")}

C24_TypeParamUnwrapsArray ==
    \A n \in PolyNodes(graph, bindings, "TypeParam") :
    \A t \in InboundTypes \ {NoType} :
    \A name \in InboundNamesOrOther(graph, n) :
        LET r == ResolveType(graph, bindings, n, t, name)
            p == Propagate(graph, bindings, n, t, name, {})
        IN  IF name \notin {NoName, SomeName(PolyParam(graph, bindings, n))}
            THEN /\ r.res = "ok" /\ r.typ = NoType
                 /\ p.res = "ok" /\ p.g = graph /\ p.calls = <<>>
            ELSE IF IsArray(t)
            THEN /\ r.res = "ok" /\ r.typ = Inner(t)
                 /\ r.g.nodes[n].cot = Inner(t)
            ELSE /\ r.res = "panic"
                 /\ p.res = "panic" /\ p.g = graph /\ p.calls = <<>>

\* a propagation brought an array type to a TypeParam binding node through its
\* parameter, and the node stores the element type
C24_Witness ==
    /\ last.op = "Connect" /\ last.res = "ok"
    /\ \E n \in PolyNodes(graph, bindings, "TypeParam") \ {last.node} :
          /\ \E c \in CanonicalConns(graph, last.node) :
                c.inp = GetInput(graph.nodes[n], PolyParam(graph, bindings, n))
          /\ IsArray(graph.nodes[last.node].cot)
          /\ graph.nodes[n].cot = Inner(graph.nodes[last.node].cot)
\* ToSubtype bindings as a bindings file may declare them: without output
\* parameters, with a "retval" of several types, and with a "retval" that is not
\* the first output parameter
DeclaredSubtypeBindings ==
    {Binding(6, "Value", <<Param("x", TAny)>>, outs, Poly("ToSubtype", "x")) :
        outs \in {<<>>, <<Param("retval", TEHandle)>>, <<Param("retval", TArray(TInt))>>,
                  <<Param("other", TInt)>>,
                  <<Param("other", TInt), Param("retval", TString)>>}}

\* the type the ToSubtype arm is to give for a binding
DeclaredSubtype(binding) ==
    IF \E i \in 1..Len(binding.outparams) : binding.outparams[i].name = "retval"
    THEN binding.outparams[CHOOSE i \in 1..Len(binding.outparams) :
                               /\ binding.outparams[i].name = "retval"
                               /\ \A j \in 1..(i - 1) : binding.outparams[j].name # "retval"].pulsetype
    ELSE TArray(TEHandle)

\* C25: a ToSubtype binding node resolves, for every inbound type (none
\* included) and every inbound name, to the declared type of the binding's output
\* parameter "retval" when it has one and to Array<EHandle> otherwise, with the
\* session's catalog and with every other declaration of such a binding.
C25_ToSubtypeIsDeclaredType ==
    \A n \in PolyNodes(graph, bindings, "ToSubtype") :
    \A t \in InboundTypes :
    \A name \in InboundNamesOrOther(graph, n) :
        /\ LET r == ResolveType(graph, bindings, n, t, name)
               b == bindings[FindFunctionById(bindings, graph.nodes[n].bind)]
           IN  r.res = "ok" /\ r.typ = DeclaredSubtype(b)
        /\ \A b \in DeclaredSubtypeBindings :
               LET r == ResolveBinding(graph, b, n, t, name)
               IN  r.res = "ok" /\ r.typ = DeclaredSubtype(b)

\* a propagation brought a scalar type to a ToSubtype binding node that declares
\* a "retval", and the node holds the declared array type
C25_Witness ==
    /\ last.op = "Connect" /\ last.res = "ok"
    /\ \E n \in PolyNodes(graph, bindings, "ToSubtype") \ {last.node} :
          /\ \E c \in CanonicalConns(graph, last.node) :
                c.inp = GetInput(graph.nodes[n], PolyParam(graph, bindings, n))
          /\ graph.nodes[last.node].cot # NoType
          /\ ~IsArray(graph.nodes[last.node].cot)
          /\ GetOutput(graph.nodes[n], "retval") # 0
          /\ graph.nodes[n].cot = TArray(TEHandle)
\* ---------------------------------------------- properties of the variable arm
GetVarNodes(g) == {n \in LiveNodes(g) : g.nodes[n].tmpl = "GetVar"}

\* the name selected on a GetVar node
SelectedName(g, n) == InputRec(g, GetInput(g.nodes[n], "variableName")).value.s

\* the graph after the variable selected on node n left the variable table (the
\* "X" button of the variable panel, or an edit of the variable's name): the
\* node keeps its ports and connections and holds a name without a variable
Forgotten(g, n) ==
    SetInputValue(g, GetInput(g.nodes[n], "variableName"), VVariableName("CHOOSE"))

\* C26: propagation at a GetVar node ignores the inbound type and name: when a
\* variable of the selected name exists the node resolves to that variable's
\* type and a propagation that returns holds it as the stored type; when none
\* exists the propagation returns successfully, the graph (stored type and ports
\* included) is unchanged and no downstream node is visited.
C26_VariableResolvedByName ==
    \A n \in GetVarNodes(graph) :
    \A t \in InboundTypes :
    \A name \in InboundNamesOrOther(graph, n) :
        /\ LET var == FindVariable(SelectedName(graph, n))
               r == ResolveType(graph, bindings, n, t, name)
               p == Propagate(graph, bindings, n, t, name, {})
           IN  IF var # 0
               THEN /\ r.res = "ok" /\ r.typ = Variables[var].typ
                    /\ p.res = "ok" => p.g.nodes[n].cot = Variables[var].typ
               ELSE /\ r.res = "ok" /\ r.typ = NoType
                    /\ p.res = "ok" /\ p.g = graph /\ p.calls = <<>>
        /\ LET g == Forgotten(graph, n)
               p == Propagate(g, bindings, n, t, name, {})
           IN  p.res = "ok" /\ p.g = g /\ p.calls = <<>>

\* the "value" output of a GetVar node with a selected variable was connected,
\* the propagation started at the node, and the node holds the variable's type
C26_Witness ==
    /\ last.op = "Connect" /\ last.res = "ok"
    /\ last.node \in GetVarNodes(graph)
    /\ CanonicalConns(graph, last.node) # {}
    /\ FindVariable(SelectedName(graph, last.node)) # 0
    /\ graph.nodes[last.node].cot = Variables[FindVariable(SelectedName(graph, last.node))].typ
\* -------------------------------------------- properties of the variable rebuild
VariableNodes(g) == {n \in LiveNodes(g) : g.nodes[n].tmpl \in {"GetVar", "SetVar"}}

\* the ports of a sequence that are not named "value", keys included
OtherPorts(ports) == SelectSeq(ports, LAMBDA p : p.name # "value")
ValuePorts(ports) == SelectSeq(ports, LAMBDA p : p.name = "value")

\* C27: the rebuild of a GetVar (SetVar) node for a variable name does not fail;
\* when a variable of that name exists the node then has exactly one "value"
\* output (input) of the variable's category, the input being
\* ConnectionOrConstant with the default of the category; when none exists the
\* node has no "value" port.  Every other port of the node is as it was.
C27_VariablePortFollowsTable ==
    \A n \in VariableNodes(graph) :
    \A name \in VariableNames :
        LET g == Begin(Finish(graph))
            r == UpdateNodeInputsOutputsTypes(g, n, name, NoType)
            node == r.g.nodes[n]
            load == graph.nodes[n].tmpl = "GetVar"
            found == {i \in 1..Len(Variables) : Variables[i].name = name}
            ins == ValuePorts(node.inputs)
            outs == ValuePorts(node.outputs)
        IN  /\ r.res = "ok"
            /\ OtherPorts(node.inputs) = OtherPorts(g.nodes[n].inputs)
            /\ OtherPorts(node.outputs) = OtherPorts(g.nodes[n].outputs)
            /\ IF found = {} THEN ins = <<>> /\ outs = <<>>
               ELSE \E i \in found :
                      IF load
                      THEN /\ ins = <<>> /\ Len(outs) = 1
                           /\ outs[1].typ = Variables[i].data_type
                      ELSE /\ outs = <<>> /\ Len(ins) = 1
                           /\ ins[1].typ = Variables[i].data_type
                           /\ ins[1].kind = "ConnectionOrConstant"
                           /\ ins[1].value = DataTypeToValue(Variables[i].data_type)

\* an array variable was selected on a SetVar node after an earlier operation of
\* the session, and the node has one "value" input of the Array category
C27_Witness ==
    /\ last.op = "ChangeVariableParamType" /\ last.res = "ok" /\ last.runs >= 2
    /\ graph.nodes[last.node].tmpl = "SetVar"
    /\ Variables[FindVariable(last.name)].data_type = "Array"
    /\ LET now == ValuePorts(graph.nodes[last.node].inputs)
       IN  Len(now) = 1 /\ now[1].typ = "Array" /\ now[1].kind = "ConnectionOrConstant"
\* ------------------------------------------ properties of the connection order
\* a NewArray node a, a ForEach node b and a node c of a FullType binding
Chains(g, bs) ==
    {ch \in LiveNodes(g) \X LiveNodes(g) \X LiveNodes(g) :
        /\ g.nodes[ch[1]].tmpl = "NewArray"
        /\ g.nodes[ch[2]].tmpl = "ForEach"
        /\ ch[3] \in PolyNodes(g, bs, "FullType")}

\* the connections a.out -> b.array and b.out -> c.<parameter> of a chain
ChainConn(g, bs, ch, k) ==
    IF k = 1
    THEN [out |-> GetOutput(g.nodes[ch[1]], "out"), inp |-> GetInput(g.nodes[ch[2]], "array")]
    ELSE [out |-> GetOutput(g.nodes[ch[2]], "out"),
          inp |-> GetInput(g.nodes[ch[3]], PolyParam(g, bs, ch[3]))]

\* two connections made one after the other, each followed by the propagation
\* ConnectEventEnded starts at the node of the connected output
ConnectBoth(g, bs, n1, c1, n2, c2) ==
    LET r1 == ConnectOp(g, bs, n1, c1)
    IN  IF r1.res # "ok" THEN r1 ELSE ConnectOp(Finish(r1.g), bs, n2, c2)

\* C28: for a NewArray node a, a ForEach node b and a node c of a FullType
\* binding, none of them connected yet, making a.out -> b.array and then
\* b.out -> c.x leaves b and c with the same stored types as making the two
\* connections in the other order.
C28_ConnectionOrderIrrelevant ==
    \A ch \in Chains(graph, bindings) :
        graph.conns = {} =>
            LET ab == ChainConn(graph, bindings, ch, 1)
                bc == ChainConn(graph, bindings, ch, 2)
                r1 == ConnectBoth(graph, bindings, ch[1], ab, ch[2], bc)
                r2 == ConnectBoth(graph, bindings, ch[2], bc, ch[1], ab)
            IN  /\ r1.res = r2.res
                /\ r1.g.nodes[ch[2]].cot = r2.g.nodes[ch[2]].cot
                /\ r1.g.nodes[ch[3]].cot = r2.g.nodes[ch[3]].cot

\* both connections of a chain exist, the one into the binding node made last,
\* and the ForEach node holds an element type that the binding node lacks
C28_Witness ==
    /\ last.op = "Connect" /\ last.res = "ok"
    /\ \E ch \in Chains(graph, bindings) :
          /\ last.node = ch[2]
          /\ graph.conns = {ChainConn(graph, bindings, ch, 1), ChainConn(graph, bindings, ch, 2)}
          /\ graph.nodes[ch[2]].cot # NoType
          /\ graph.nodes[ch[3]].cot = NoType
\* ------------------------------------------ properties of the node patches
\* the input (output) of that name on a node, as a sequence of zero or one ports
InputsNamed(node, name) == SelectSeq(node.inputs, LAMBDA p : p.name = name)
OutputsNamed(node, name) == SelectSeq(node.outputs, LAMBDA p : p.name = name)

\* C29: after the migration of a SoundEventStart node without "soundEventType"
\* the node has a ConstantOnly input "soundEventType" of the enum category, a
\* ConnectionOnly Action input "ActionIn" and an Action output "outAction", all
\* three with keys the graph did not hold; "ActionIn" is the first input, and the
\* inputs the node had follow it in their old order.
C29_SoundPatchLeadsWithActionIn ==
    Migrated =>
        \A n \in NodeIds :
            LegacySound(prev.graph.nodes[n]) =>
                LET old == prev.graph.nodes[n].inputs
                    new == graph.nodes[n].inputs
                    type == InputsNamed(graph.nodes[n], "soundEventType")
                    out == OutputsNamed(graph.nodes[n], "outAction")
                IN  /\ Len(type) = 1 /\ type[1].kind = "ConstantOnly"
                    /\ type[1].typ = "GeneralEnum" /\ type[1].value = VGeneralEnum
                    /\ type[1].id \notin InputIdsOf(prev.graph)
                    /\ Len(out) = 1 /\ out[1].typ = "Action"
                    /\ out[1].id \notin OutputIdsOf(prev.graph)
                    /\ Len(InputsNamed(graph.nodes[n], "ActionIn")) = 1
                    /\ new[1].name = "ActionIn" /\ new[1].kind = "ConnectionOnly"
                    /\ new[1].typ = "Action" /\ new[1].id \notin InputIdsOf(prev.graph)
                    /\ new[1].id # type[1].id
                    /\ SelectSeq(Tail(new), LAMBDA p : p.id \in InputIdsOf(prev.graph)) = old

\* a SoundEventStart node that was saved without the three ports, but with
\* other inputs, was migrated
C29_Witness ==
    /\ Migrated
    /\ \E n \in NodeIds :
          /\ LegacySound(prev.graph.nodes[n])
          /\ Len(prev.graph.nodes[n].inputs) >= 2
          /\ graph.nodes[n].inputs[1].name = "ActionIn"
          /\ Len(graph.nodes[n].inputs) = Len(prev.graph.nodes[n].inputs) + 2
\* the template of the node a Call node's "nodeId" input refers to, "None" when
\* the node has no such input, the reference is empty or the node is gone
ReferredTemplate(g, node) ==
    LET sel == GetInput(node, "nodeId")
        v == IF sel = 0 THEN VAny ELSE InputRec(g, sel).value
    IN  IF sel = 0 \/ v.vt # "NodeChoice" \/ v.n \notin NodeIds THEN "None"
        ELSE g.nodes[v.n].tmpl

\* the Call nodes of a graph that have no "Async" input
CallsWithoutAsync(g) ==
    {n \in NodeIds : g.nodes[n].tmpl = "CallNode" /\ GetInput(g.nodes[n], "Async") = 0}

\* C30: the migration gives a Call node without "Async" a ConstantOnly Bool
\* input "Async" with the value false exactly when its "nodeId" refers to an
\* existing Function or ListenForEntityOutput node; a Call node whose reference
\* is empty, dangling or to a node of another template is as it was.
C30_AsyncAddedByReference ==
    Migrated =>
        \A n \in CallsWithoutAsync(prev.graph) :
            LET async == InputsNamed(graph.nodes[n], "Async")
            IN  IF ReferredTemplate(prev.graph, prev.graph.nodes[n])
                       \in {"Function", "ListenForEntityOutput"}
                THEN /\ Len(async) = 1 /\ async[1].kind = "ConstantOnly"
                     /\ async[1].typ = "Bool" /\ async[1].value = VBool(0)
                ELSE graph.nodes[n] = prev.graph.nodes[n]

\* a Call node without "Async" that refers to a ListenForEntityOutput node was
\* migrated and has no "Async" input
C30_Witness ==
    /\ Migrated
    /\ \E n \in CallsWithoutAsync(prev.graph) :
          /\ ReferredTemplate(prev.graph, prev.graph.nodes[n]) = "ListenForEntityOutput"
          /\ GetInput(graph.nodes[n], "Async") = 0
\* the ListenForEntityOutput nodes of a graph
ListenerNodes(g) == {n \in NodeIds : g.nodes[n].tmpl = "ListenForEntityOutput"}

\* the Call nodes without "Async" that refer to a ListenForEntityOutput node
ListenerCalls(g) ==
    {n \in CallsWithoutAsync(g) : ReferredTemplate(g, g.nodes[n]) = "ListenForEntityOutput"}

\* C31 (as stated): after the migration no ListenForEntityOutput node has an
\* output named "outAction".
C31_ListenersLoseOutAction ==
    Migrated => \A n \in ListenerNodes(graph) : GetOutput(graph.nodes[n], "outAction") = 0

\* C31 (amended): after the migration no Call node that had no "Async" input and
\* refers to a ListenForEntityOutput node has an output named "outAction"; the
\* other outputs of such a node, and every output of every ListenForEntityOutput
\* node, are as they were.
C31_ListenerCallsLoseOutAction ==
    Migrated =>
        /\ \A n \in ListenerCalls(prev.graph) :
              /\ GetOutput(graph.nodes[n], "outAction") = 0
              /\ graph.nodes[n].outputs
                    = SelectSeq(prev.graph.nodes[n].outputs, LAMBDA p : p.name # "outAction")
        /\ \A n \in ListenerNodes(prev.graph) :
              graph.nodes[n].outputs = prev.graph.nodes[n].outputs

\* a Call node without "Async" that refers to a ListenForEntityOutput node and
\* still had the output "outAction" was migrated; the node it refers to has its
\* own "outAction"
C31_Witness ==
    /\ Migrated
    /\ \E n \in ListenerCalls(prev.graph) :
          /\ GetOutput(prev.graph.nodes[n], "outAction") # 0
          /\ GetOutput(graph.nodes[n], "outAction") = 0
          /\ \E m \in ListenerNodes(graph) : GetOutput(graph.nodes[m], "outAction") # 0
\* ------------------------------------------------ properties of undo and redo
\* every function binding of the catalog bs is found by its id in the catalog cs
AllFound(bs, cs) == \A i \in 1..Len(bs) : FindFunctionById(cs, bs[i].id) # 0

\* C32: do_undo and do_redo leave the binding catalog and the save-file path as
\* they were: every binding loaded before the call is found by its id after it,
\* and save_file_path has the value it had before the call.
C32_UndoKeepsCatalogAndPath ==
    [][(DoUndo \/ DoRedo) => (AllFound(bindings, bindings') /\ saveFilePath' = saveFilePath)]_vars

\* an undo handed out an earlier state while a saved path was set, and the
\* session has no binding left
C32_Witness ==
    /\ last.op = "do_undo" /\ last.res = "ok"
    /\ saveFilePath # NoPath
    /\ bindings = <<>>
\* ------------------------------------------ properties of acyclic graphs
\* the connections of a graph as edges between its nodes
Edges(g) == {<<OwnerOfOutput(g, c.out), OwnerOfInput(g, c.inp)>> : c \in g.conns}

\* the nodes can be numbered so that every connection leads to a higher number
Acyclic(g) ==
    \E rank \in [LiveNodes(g) -> 1..Cardinality(LiveNodes(g))] :
        \A e \in Edges(g) : rank[e[1]] < rank[e[2]]

\* C33: on a graph without a cycle a propagation started at any node, with any
\* inbound type and name, ends: it does not recurse without end, no call is
\* nested deeper than the graph has nodes, and only nodes that are
\* polymorphic-dependent make a call.
C33_AcyclicPropagationEnds ==
    Acyclic(graph) =>
        \A n \in LiveNodes(graph) :
        \A t \in InboundTypes :
        \A name \in InboundNamesOrNone(graph, n) :
            LET p == Propagate(graph, bindings, n, t, name, {})
            IN  /\ p.res # "overflow"
                /\ \A i \in 1..Len(p.calls) :
                      /\ p.calls[i].depth + 2 <= Cardinality(LiveNodes(graph))
                      /\ HasPolymorphicDependentReturn(bindings, graph.nodes[p.calls[i].from])

\* a connection was made in a chain of three nodes without a cycle, and the
\* propagation it started ran through two nested calls
C33_Witness ==
    /\ last.op = "Connect" /\ last.res = "ok"
    /\ Acyclic(graph)
    /\ Cardinality(graph.conns) >= 2
    /\ \E i \in 1..Len(Propagate(graph, bindings, last.node, NoType, NoName, {}).calls) :
          Propagate(graph, bindings, last.node, NoType, NoName, {}).calls[i].depth = 1
\* ------------------------------------------------ properties of the sinks
\* the nodes that are neither GetArrayElement, NewArray, GetVar or ForEach nor
\* nodes of a binding the catalog holds with a polymorphic return
SinkNodes(g, bs) ==
    {n \in LiveNodes(g) :
        /\ g.nodes[n].tmpl \notin {"GetArrayElement", "NewArray", "GetVar", "ForEach"}
        /\ \A i \in 1..Len(bs) :
              (g.nodes[n].tmpl = "LibraryBindingAssigned" /\ bs[i].id = g.nodes[n].bind)
                  => bs[i].poly = NoPoly}

\* C34: a propagation into a node that is not polymorphic-dependent returns
\* successfully, leaves the whole graph as it was and calls no other node,
\* whatever inbound type and name it is given.
C34_SinkIsUntouched ==
    \A n \in SinkNodes(graph, bindings) :
    \A t \in InboundTypes :
    \A name \in InboundNamesOrOther(graph, n) :
        LET p == Propagate(graph, bindings, n, t, name, {})
        IN  p.res = "ok" /\ p.g = graph /\ p.calls = <<>>

\* a connection was made from a node that resolved a type into a node that is
\* not polymorphic-dependent, and that node holds no stored type
C34_Witness ==
    /\ last.op = "Connect" /\ last.res = "ok"
    /\ graph.nodes[last.node].cot # NoType
    /\ \E c \in CanonicalConns(graph, last.node) :
          /\ OwnerOfInput(graph, c.inp) \in SinkNodes(graph, bindings)
          /\ graph.nodes[OwnerOfInput(graph, c.inp)].cot = NoType
\* ------------------------------------------------ properties of the array literal
\* the NewArray nodes whose "arrayType" input holds a type
ArrayLiterals(g) ==
    {n \in LiveNodes(g) :
        /\ g.nodes[n].tmpl = "NewArray"
        /\ GetInput(g.nodes[n], "arrayType") # 0
        /\ InputRec(g, GetInput(g.nodes[n], "arrayType")).value.vt = "Typ"}

\* the type held by the "arrayType" input of NewArray node n
ElementChoice(g, n) == InputRec(g, GetInput(g.nodes[n], "arrayType")).value.t

\* C35: at a NewArray node the propagation resolves Array<E>, E being the type
\* held by the node's own "arrayType" input, for an absent and for every present
\* inbound type and for every inbound name; a propagation that ends well leaves
\* exactly that type stored on the node.
C35_LiteralResolvesOwnElementType ==
    \A n \in ArrayLiterals(graph) :
    \A t \in InboundTypes :
    \A name \in InboundNamesOrOther(graph, n) :
        LET r == ResolveType(graph, bindings, n, t, name)
            p == Propagate(graph, bindings, n, t, name, {})
        IN  /\ r.res = "ok" /\ r.typ = TArray(ElementChoice(graph, n))
            /\ p.res = "ok" => p.g.nodes[n].cot = TArray(ElementChoice(graph, n))

\* the element type of a NewArray node was changed away from the template's
\* Int and the node stores the array of the new element type
C35_Witness ==
    /\ last.op = "ChangeParamType" /\ last.res = "ok"
    /\ last.node \in ArrayLiterals(graph)
    /\ ElementChoice(graph, last.node) # TInt
    /\ graph.nodes[last.node].cot = TArray(ElementChoice(graph, last.node))
    /\ Downstream(graph, last.node) # <<>>
\* ------------------------------------------------ properties of a failed rebuild
\* node n lacks a port its rebuild looks up
LacksRequired(g, n) ==
    \/ \E name \in RequiredInputs(g.nodes[n].tmpl) : GetInput(g.nodes[n], name) = 0
    \/ \E name \in RequiredOutputs(g.nodes[n].tmpl) : GetOutput(g.nodes[n], name) = 0

\* the ports of a node: key, name and type of every input and output, in order
PortShape(node) ==
    [ins |-> [i \in 1..Len(node.inputs) |->
                <<node.inputs[i].id, node.inputs[i].name, node.inputs[i].typ>>],
     outs |-> [i \in 1..Len(node.outputs) |->
                <<node.outputs[i].id, node.outputs[i].name, node.outputs[i].typ>>]]

\* C36: when the rebuild of a type-choice node fails because "A", "B", "out" or
\* "vector" is missing, the node is as it was before the rebuild: no port was
\* removed, added or given another type.
C36_FailedRebuildChangesNothing ==
    [][(/\ last'.op = "ChangeParamType" /\ last'.res = "panic"
        /\ LacksRequired(graph, last'.node))
          => PortShape(graph'.nodes[last'.node]) = PortShape(graph.nodes[last'.node])]_vars

\* the rebuild of a ScaleVector node without "vector" failed, and the node's
\* "out" has another type than in the opened file
C36_Witness ==
    /\ last.op = "ChangeParamType" /\ last.res = "panic" /\ last.runs = 1
    /\ graph.nodes[last.node].tmpl = "ScaleVector"
    /\ GetInput(graph.nodes[last.node], "vector") = 0
    /\ PortShape(graph.nodes[last.node]).ins = PortShape(loaded.nodes[last.node]).ins
    /\ PortShape(graph.nodes[last.node]).outs # PortShape(loaded.nodes[last.node]).outs
\* ------------------------------------------------ properties of saving
\* C37: after perform_save, whether it wrote the file, failed to write it or had
\* no destination, save_file_path is what it was when perform_save was called.
C37_SaveKeepsPath ==
    last.op = "perform_save" => saveFilePath = last.name

\* a save to a known path failed and the session has no path any more
C37_Witness ==
    /\ last.op = "perform_save" /\ last.res = "err"
    /\ last.name \in DialogPaths
    /\ saveFilePath = NoPath
    /\ LiveNodes(graph) # {}

\* ------------------------------------------------ properties of the referencable nodes
\* C38: every key of exposed_nodes is a node of the graph whose template is
\* Function or ListenForEntityOutput, so that the rebuild of any Call node from
\* any reference the node widget offers ends well.
C38_ExposedNodesAreCallable ==
    /\ \A ref \in exposed :
          /\ ref \in LiveNodes(graph)
          /\ graph.nodes[ref].tmpl \in {"Function", "ListenForEntityOutput"}
    /\ \A n \in LiveNodes(graph) :
       \A ref \in exposed :
          graph.nodes[n].tmpl = "CallNode"
              => ChangeRemoteNodeIdOp(Begin(graph), n, ref).res = "ok"
    /\ last.op = "ChangeRemoteNodeId" => last.res = "ok"

\* after three operations the last of which deleted a node, a referencable node
\* is left, and the table holds exactly the referencable nodes of the graph
C38_Witness ==
    /\ last.op = "DeleteNode" /\ last.runs = MaxOps
    /\ last.node \notin LiveNodes(graph)
    /\ exposed # {}
    /\ exposed = {n \in LiveNodes(graph) : graph.nodes[n].tmpl \in {"Function", "ListenForEntityOutput"}}
\* ------------------------------------------------ properties of the names under migration
\* the binding nodes of the state before the last operation
BindingNodesBefore == {n \in NodeIds : prev.graph.nodes[n].tmpl = "LibraryBindingAssigned"}

\* C39 (as stated): the migration of a binding node renames no port: every input
\* the node had before verify_compat has the same name afterwards, whatever
\* names and order the catalog entry declares.
C39_InputsKeepNames ==
    Migrated =>
        \A n \in BindingNodesBefore :
        \A p \in Range(prev.graph.nodes[n].inputs) :
        \E q \in Range(graph.nodes[n].inputs) : q.id = p.id /\ q.name = p.name

\* C39 (amended): the migration of a binding node keeps every input at its
\* position with its key; the k-th input whose name holds neither "action" nor
\* "binding" takes the name of the k-th declared input parameter when the
\* catalog entry has one, and every other input keeps its name.  No name changes
\* when the entry declares these inputs under their present names in order.
C39_InputsNamedByPosition ==
    Migrated =>
        \A n \in BindingNodesBefore :
            LET old == prev.graph.nodes[n]
                new == graph.nodes[n]
                m == MatchedInputs(old)
                ps == DeclaredParams(old)
                named == \A k \in 1..Len(m) : k <= Len(ps) => old.inputs[m[k]].name = ps[k].name
            IN  /\ Len(new.inputs) >= Len(old.inputs)
                /\ \A i \in 1..Len(old.inputs) :
                      /\ new.inputs[i].id = old.inputs[i].id
                      /\ new.inputs[i].name =
                            IF \E k \in 1..Len(m) : m[k] = i /\ k <= Len(ps)
                            THEN ps[CHOOSE k \in 1..Len(m) : m[k] = i].name
                            ELSE old.inputs[i].name
                /\ named => \A i \in 1..Len(old.inputs) : new.inputs[i].name = old.inputs[i].name

\* the first migration gave an input of a binding node another name, left
\* another input of the node its name, and added no input
C39_Witness ==
    /\ Migrated /\ last.runs = 1
    /\ \E n \in BindingNodesBefore :
          LET old == prev.graph.nodes[n].inputs
              new == graph.nodes[n].inputs
          IN  /\ Len(new) = Len(old)
              /\ \E i \in 1..Len(old) : new[i].id = old[i].id /\ new[i].name # old[i].name
              /\ \E i \in 1..Len(old) : new[i].id = old[i].id /\ new[i].name = old[i].name
\* ------------------------------------------------ properties of the marker parser
\* the positions of the colons of a marker
Colons(s) == {i \in 1..Len(s) : s[i] = ":"}
\* the word before and the word after the colon at position c, "" when none
WordBefore(s, c) == IF c = 1 THEN "" ELSE s[c - 1]
WordAfter(s, c) == IF c = Len(s) THEN "" ELSE s[c + 1]

\* what a marker stands for
MarkerMeaning(s) ==
    LET c == CHOOSE i \in Colons(s) : TRUE
        mode == WordAfter(s, c)
    IN  IF Cardinality(Colons(s)) # 1 THEN NoPoly
        ELSE IF mode = "typeparam" THEN Poly("TypeParam", WordBefore(s, c))
        ELSE IF mode = "fulltype" THEN Poly("FullType", WordBefore(s, c))
        ELSE IF mode = "to_subtype" THEN Poly("ToSubtype", WordBefore(s, c))
        ELSE NoPoly

\* C40: a marker with exactly one colon, <name>:<mode>, is read as
\* TypeParam(name) for mode "typeparam", FullType(name) for "fulltype" and
\* ToSubtype(name) for "to_subtype"; with any other mode, without a colon or with
\* more than one colon it is read as no polymorphism; no marker is an error.
C40_MarkerParsedByMode ==
    last.op = "load_bindings" =>
        /\ last.res = "ok"
        /\ Len(bindings) = Cardinality(FileEntries)
        /\ \A i \in FileEntries : bindings[i].poly = MarkerMeaning(last.typ[i])

\* the file's markers were "y:to_subtype" and ":typeparam:"; the first entry
\* returns the subtype of y and the second is not polymorphic
C40_Witness ==
    /\ last.op = "load_bindings"
    /\ last.typ[1] = <<"y", ":", "to_subtype">>
    /\ last.typ[2] = <<":", "typeparam", ":">>
    /\ bindings[1].poly = Poly("ToSubtype", "y")
    /\ bindings[2].poly = NoPoly
====
